---- MODULE Spec2Model ----
(***************************************************************************)
(* Model of the proxy-staff document store and state-transition engine:    *)
(* the approval queue (queue_action / approve_actions /                    *)
(* execute_approved_actions / list_pending_actions), the reply classifier  *)
(* and its stage application (process_campaign_replies) and the campaign   *)
(* target store with its metrics rollup (campaign_write).                  *)
(***************************************************************************)
EXTENDS Integers, Sequences, FiniteSets, TLC

VARIABLES
    pending,        \* state/pending_approvals.json : "pending" array
    history,        \* state/pending_approvals.json : "history" array
    now,            \* datetime.utcnow(), in seconds
    ticks,          \* number of clock advances so far (bounds the clock)
    nextId,         \* number of uuid4() action ids handed out so far
    sentOk,         \* ids for which an external sender returned success
    last,           \* stdout / external effects of the last invocation
    campaign_exists,\* operations/campaigns/<name>/ exists
    doc,            \* operations/campaigns/<name>/targets.md frontmatter
    metrics,        \* operations/campaigns/<name>/metrics.md : "summary"
    prospects,      \* relationships/prospects/<slug>.md : slug -> the
                    \* name, email and stage of its frontmatter
    nextTid,        \* number of uuid4() target ids handed out so far
    processed_ids,  \* state/processed_replies.json : "processed_ids"
    stage_writes,   \* the update_target calls of the last reply run, each
                    \* with the stage the document held just before it
    content,        \* the reply body handed to analyze_reply
    analysis,       \* what analyze_reply returned for it
    current_stage,  \* the stage process_campaign_replies holds for a target
    suggested_stage,\* the stage the classifier suggests for it
    stage_decision, \* whether the suggestion is applied
    migration,      \* the report printed by the last migration run
    folders,        \* operations/campaigns/ : folder -> the documents in it
    creating,       \* the create_campaign call that is running, if any
    created,        \* the prospects created so far: slug returned, name given
    log,            \* operations/campaigns/<name>/log.md : "events"
    logged,         \* number of log_event calls that wrote the log
    life,           \* life/<file>.md : the frontmatter mapping
    appends,        \* number of append calls that wrote the life file
    nextLid,        \* number of uuid4() element ids handed out so far
    frontmatter,    \* a mapping and a markdown text, the file text written
                    \* for them and what is read back from it
    body,           \* relationships/prospects/<slug>.md : slug -> the
                    \* markdown body below the frontmatter
    appended,       \* the interaction_history_append texts given so far
    procs           \* the invocations running on the queue file side by
                    \* side: what each loaded and how far it is

queueVars == <<pending, history, now, ticks, nextId, sentOk>>
campaignVars == <<campaign_exists, doc, metrics, prospects, nextTid>>
replyVars == <<processed_ids, stage_writes>>
classifyVars == <<content, analysis>>
stageVars == <<current_stage, suggested_stage, stage_decision>>
\* the state of the tools that work on one document each
lifeVars == <<life, appends, nextLid>>
noteVars == <<body, appended>>
toolVars ==
    <<migration, folders, creating, created, log, logged, lifeVars, frontmatter,
     noteVars, procs>>
\* what each of these tools leaves alone among them
exceptMigration == <<folders, creating, created, log, logged, lifeVars, frontmatter,
     noteVars, procs>>
exceptCreate == <<migration, created, log, logged, lifeVars, frontmatter,
     noteVars, procs>>
exceptProspects == <<migration, folders, creating, log, logged, lifeVars, frontmatter,
     noteVars, procs>>
exceptLog == <<migration, folders, creating, created, lifeVars, frontmatter,
     noteVars, procs>>
exceptLife == <<migration, folders, creating, created, log, logged, frontmatter,
     noteVars, procs>>
exceptFrontmatter ==
    <<migration, folders, creating, created, log, logged, lifeVars, noteVars, procs>>
exceptNotes ==
    <<migration, folders, creating, created, log, logged, lifeVars, frontmatter,
      procs>>
exceptProcs ==
    <<migration, folders, creating, created, log, logged, lifeVars, frontmatter,
      noteVars>>
\* the state of the approval queue, the campaign store and the reply run
nonToolVars == <<queueVars, campaignVars, replyVars, classifyVars, stageVars>>

\* what the approval queue tools never touch
nonQueueVars == <<campaignVars, replyVars, classifyVars, stageVars, toolVars>>

vars ==
    <<queueVars, last, campaignVars, replyVars, classifyVars, stageVars, toolVars>>

----------------------------------------------------------------------------
(* Bounds of the model *)

MaxActions == 2          \* queue_action calls in one behaviour
MaxExpiryActions == 2    \* queue_action calls in one behaviour with a clock
MaxTicks == 2            \* clock advances in one behaviour
MaxTargets == 2          \* targets and references added in one behaviour
MaxTouches == 1          \* touches recorded for one target
MaxBatch == 2            \* emails one Gmail search returns
MaxFragments == 2        \* fragments a classified text is made of
MaxProspects == 3        \* prospects created
MaxLogEvents == 1002     \* log_event calls
MaxAppends == 2          \* append calls on the life file

(* Program constants *)

TTL == 259200            \* timedelta(days=3), in seconds
LogCap == 1000           \* events the campaign log keeps
HistoryCap == 500        \* history kept by approve_actions

(* Values *)

NoTime == -1             \* an absent timestamp (key missing / None)
NoError == "null"        \* an absent last_error
NoCampaign == ""         \* campaign_id filter not given (None or "")

Campaigns == {"c1", "c2"}
IdPool == 1..MaxActions
\* <<action_type, channel>> pairs a caller may queue
ActionKinds == { <<"send_email", "email">>, <<"fax", "fax">> }
SenderOutcomes == {"success", "failed", "timeout"}
TickSteps == {1, TTL}

\* what the last invocation was and the status it printed
NoLast == [op |-> "none", status |-> "success"]

SeqToSet(s) == { s[i] : i \in 1..Len(s) }

----------------------------------------------------------------------------
(* queue_action.py *)

NewActionApproved(id, campaign_id, kind, t) ==
    [ id |-> id, campaign_id |-> campaign_id,
      action_type |-> kind[1], channel |-> kind[2],
      expires_at |-> t + TTL,
      status |-> "approved", last_error |-> NoError, last_attempt |-> NoTime ]

\* lines 74-94
NewAction(id, campaign_id, kind, t) ==
    [ id |-> id, campaign_id |-> campaign_id,
      action_type |-> kind[1], channel |-> kind[2],
      expires_at |-> t + TTL,
      status |-> "pending", last_error |-> NoError, last_attempt |-> NoTime ]

QueueAction(campaign_id, kind) ==
    /\ nextId' = nextId + 1
    /\ pending' = Append(pending, NewAction(nextId + 1, campaign_id, kind, now))
    /\ last' = [NoLast EXCEPT !.op = "queue_action"]
    /\ UNCHANGED <<history, now, ticks, sentOk, nonQueueVars>>

----------------------------------------------------------------------------
(* approve_actions.py *)

ApproveExpiryBoundaryIncl(action, t) ==
    action.expires_at # NoTime /\ action.expires_at < t

\* lines 71-75: the action is skipped when it has an expiry that is <= now
ApproveExpired(action, t) ==
    action.expires_at # NoTime /\ action.expires_at <= t

\* lines 78-85
ShouldApprove(action, action_ids, approve_all, campaign_id) ==
    IF approve_all
    THEN IF campaign_id # NoCampaign
         THEN action.campaign_id = campaign_id
         ELSE TRUE
    ELSE action.id \in action_ids

\* lines 67-68: anything whose status is not pending is skipped
ApproveSkipsStatus(action) == action.status # "pending"

HistoryEntry(action) == [id |-> action.id, status |-> "approved"]

\* lines 65-100: one pass over data["pending"], in order
RECURSIVE ApproveLoop(_, _, _, _, _, _, _, _)
ApproveLoop(p, h, done, i, action_ids, approve_all, campaign_id, t) ==
    IF i > Len(p) THEN [pending |-> p, history |-> h, approved |-> done]
    ELSE IF ApproveSkipsStatus(p[i])
         THEN ApproveLoop(p, h, done, i + 1, action_ids, approve_all, campaign_id, t)
    ELSE IF ApproveExpired(p[i], t)
         THEN ApproveLoop(p, h, done, i + 1, action_ids, approve_all, campaign_id, t)
    ELSE IF ShouldApprove(p[i], action_ids, approve_all, campaign_id)
         THEN ApproveLoop([p EXCEPT ![i].status = "approved"],
                          <<HistoryEntry(p[i])>> \o h,
                          Append(done, p[i].id),
                          i + 1, action_ids, approve_all, campaign_id, t)
    ELSE ApproveLoop(p, h, done, i + 1, action_ids, approve_all, campaign_id, t)

CapHistoryKeepsOldest(h) ==
    IF Len(h) > HistoryCap THEN SubSeq(h, Len(h) - HistoryCap + 1, Len(h)) ELSE h

\* lines 103-104
CapHistory(h) == IF Len(h) > HistoryCap THEN SubSeq(h, 1, HistoryCap) ELSE h

\* lines 61-106: the queue file as the call leaves it
ApproveBatch(p, h, action_ids, approve_all, campaign_id, t) ==
    LET r == ApproveLoop(p, h, <<>>, 1, action_ids, approve_all, campaign_id, t)
    IN [ pending |-> r.pending, history |-> CapHistory(r.history),
         approved |-> r.approved ]

Approve(action_ids, approve_all, campaign_id) ==
    IF action_ids = {} /\ ~approve_all
    THEN \* line 58-59: ValueError, nothing is written
         /\ last' = [NoLast EXCEPT !.op = "approve", !.status = "error"]
         /\ UNCHANGED <<pending, history, now, ticks, nextId, sentOk, nonQueueVars>>
    ELSE LET r == ApproveBatch(pending, history, action_ids, approve_all,
                               campaign_id, now)
         IN /\ pending' = r.pending
            /\ history' = r.history
            /\ last' = [NoLast EXCEPT !.op = "approve"]
            /\ UNCHANGED <<now, ticks, nextId, sentOk, nonQueueVars>>

----------------------------------------------------------------------------
(* execute_approved_actions.py *)

\* execute_email / execute_linkedin / execute_sms: the external sender is
\* run and its answer (success, a non-success result, or a timeout) is
\* turned into a result
SenderResult(outcome, what) ==
    IF outcome = "success"
    THEN [status |-> "success", error |-> NoError, sender |-> TRUE]
    ELSE IF outcome = "timeout"
    THEN [status |-> "failed", error |-> "Timeout sending " \o what, sender |-> TRUE]
    ELSE [status |-> "failed", error |-> what \o " send failed", sender |-> TRUE]

\* lines 160-181
execute_action_always_sends(action, dry_run, outcome) ==
    SenderResult(outcome, "email")
execute_action(action, dry_run, outcome) ==
    IF dry_run
    THEN [status |-> "success", error |-> NoError, sender |-> FALSE]
    ELSE IF action.action_type = "send_email" \/ action.channel = "email"
    THEN SenderResult(outcome, "email")
    ELSE IF action.action_type = "send_linkedin" \/ action.channel = "linkedin"
    THEN SenderResult(outcome, "LinkedIn")
    ELSE IF action.action_type = "send_sms" \/ action.channel = "sms"
    THEN SenderResult(outcome, "SMS")
    ELSE IF action.action_type = "call" \/ action.channel = "call"
    THEN [status |-> "failed", error |-> "Call execution not yet implemented",
          sender |-> FALSE]
    ELSE [status |-> "failed", error |-> "Unknown action type", sender |-> FALSE]

ExecuteSelectsAnyStatus(action, action_ids) ==
    ~(action_ids # {} /\ action.id \notin action_ids)

\* lines 203-208: only approved actions, filtered by action_ids when given
ExecuteSelects(action, action_ids) ==
    /\ action.status = "approved"
    /\ ~(action_ids # {} /\ action.id \notin action_ids)

\* lines 229-233: the first history entry with the action's id
RECURSIVE MarkHistory(_, _, _)
MarkHistory(h, id, i) ==
    IF i > Len(h) THEN h
    ELSE IF h[i].id = id THEN [h EXCEPT ![i].status = "executed"]
    ELSE MarkHistory(h, id, i + 1)

OnFailureDrop(a, res, t) ==
    [a EXCEPT !.status = "executed", !.last_error = res.error, !.last_attempt = t]

\* lines 236-239
OnFailure(a, res, t) ==
    [a EXCEPT !.last_error = res.error, !.last_attempt = t]

OnSuccessKeepsApproved(a) == a

\* lines 224-225
OnSuccess(a) == [a EXCEPT !.status = "executed"]

\* lines 201-239: one pass over data["pending"], in order
RECURSIVE ExecuteLoop(_, _, _, _, _, _, _, _)
ExecuteLoop(p, h, results, i, action_ids, dry_run, oc, t) ==
    IF i > Len(p)
    THEN [pending |-> p, history |-> h, results |-> results]
    ELSE IF ~ExecuteSelects(p[i], action_ids)
    THEN ExecuteLoop(p, h, results, i + 1, action_ids, dry_run, oc, t)
    ELSE LET res == execute_action(p[i], dry_run, oc[p[i].id])
             \* the result entry; `sender`: an external sender was run for it
             entry == [action_id |-> p[i].id, status |-> res.status,
                       sender |-> res.sender]
         IN IF res.status = "success"
            THEN IF dry_run
                 THEN ExecuteLoop(p, h, Append(results, entry), i + 1,
                                  action_ids, dry_run, oc, t)
                 ELSE ExecuteLoop([p EXCEPT ![i] = OnSuccess(p[i])],
                                  MarkHistory(h, p[i].id, 1),
                                  Append(results, entry), i + 1,
                                  action_ids, dry_run, oc, t)
            ELSE IF dry_run
                 THEN ExecuteLoop(p, h, Append(results, entry), i + 1,
                                  action_ids, dry_run, oc, t)
                 ELSE ExecuteLoop([p EXCEPT ![i] = OnFailure(p[i], res, t)], h,
                                  Append(results, entry), i + 1,
                                  action_ids, dry_run, oc, t)

KeepAll(p) == p

\* line 243
RemoveExecuted(p) == SelectSeq(p, LAMBDA a : a.status # "executed")

\* lines 194-253: the queue file as the call leaves it, and the results it
\* prints; a dry run writes nothing
ExecuteBatch(p, h, action_ids, dry_run, oc, t) ==
    LET r == ExecuteLoop(p, h, <<>>, 1, action_ids, dry_run, oc, t)
    IN [ pending |-> IF dry_run THEN p ELSE RemoveExecuted(r.pending),
         history |-> IF dry_run THEN h ELSE r.history,
         results |-> r.results ]

\* the ids for which a sender was run and answered success
SentOk(results) ==
    { results[j].action_id : j \in
        { k \in 1..Len(results) :
            results[k].sender /\ results[k].status = "success" } }

Execute(action_ids, dry_run, oc) ==
    LET r == ExecuteBatch(pending, history, action_ids, dry_run, oc, now)
    IN /\ pending' = r.pending
       /\ history' = r.history
       /\ sentOk' = sentOk \cup SentOk(r.results)
       /\ last' = [NoLast EXCEPT !.op = IF dry_run THEN "execute dry_run"
                                       ELSE "execute"]
       /\ UNCHANGED <<now, ticks, nextId, nonQueueVars>>

----------------------------------------------------------------------------
(* queue_action.py, execute_approved_actions.py : two invocations side by
   side.  Each is a process of its own that reads the queue file, works on
   what it read and writes the file back; no lock is taken and the file is
   not read again before it is written. *)

Procs == {1, 2}
NoProc ==
    [ pc |-> "idle", op |-> "none", kind |-> << "", "" >>, outcome |-> "none",
      id |-> 0, pending |-> <<>>, history |-> <<>>, stale |-> FALSE ]

\* the document an invocation changes and saves: the one it loaded
WorksOnStored(loaded, stored) == stored
WorksOn(loaded, stored) == loaded

\* load_pending_approvals() of a queue_action call, and its uuid4()
LoadForQueue(p, kind) ==
    /\ procs[p].pc = "idle"
    /\ procs' = [ procs EXCEPT ![p] =
                    [ NoProc EXCEPT !.pc = "loaded", !.op = "queue_action",
                                    !.kind = kind, !.id = nextId + 1,
                                    !.pending = pending, !.history = history ] ]
    /\ nextId' = nextId + 1
    /\ UNCHANGED <<pending, history, now, ticks, sentOk, last>>
    /\ UNCHANGED <<campaignVars, replyVars, classifyVars, stageVars, exceptProcs>>

\* load_pending_approvals() of an execute call of all approved actions,
\* whose senders will answer with the outcome
LoadForExecute(p, outcome) ==
    /\ procs[p].pc = "idle"
    /\ procs' = [ procs EXCEPT ![p] =
                    [ NoProc EXCEPT !.pc = "loaded", !.op = "execute",
                                    !.outcome = outcome,
                                    !.pending = pending, !.history = history ] ]
    /\ UNCHANGED <<pending, history, now, ticks, nextId, sentOk, last>>
    /\ UNCHANGED <<campaignVars, replyVars, classifyVars, stageVars, exceptProcs>>

\* what the invocation of process p writes, for the file as it is stored
Written(p, stored_pending, stored_history) ==
    LET data_pending == WorksOn(procs[p].pending, stored_pending)
        data_history == WorksOn(procs[p].history, stored_history)
    IN IF procs[p].op = "queue_action"
       THEN [ pending |-> Append(data_pending,
                            NewAction(procs[p].id, "c1", procs[p].kind, now)),
              history |-> data_history, results |-> <<>> ]
       ELSE ExecuteBatch(data_pending, data_history, {}, FALSE,
                         [ i \in { data_pending[j].id : j \in 1..Len(data_pending) }
                             |-> procs[p].outcome ], now)

\* the rest of the invocation: the change, save_pending_approvals(data) and
\* the success it prints.  Every other invocation that has loaded the file
\* and not yet saved now holds an outdated copy.
SaveLoaded(p) ==
    LET w == Written(p, pending, history)
    IN /\ procs[p].pc = "loaded"
       /\ pending' = w.pending
       /\ history' = w.history
       /\ sentOk' = sentOk \cup SentOk(w.results)
       /\ procs' = [ q \in Procs |->
                       IF q = p THEN [ procs[p] EXCEPT !.pc = "done" ]
                       ELSE IF procs[q].pc = "loaded"
                       THEN [ procs[q] EXCEPT !.stale = TRUE ]
                       ELSE procs[q] ]
       /\ last' = [NoLast EXCEPT !.op = procs[p].op]
       /\ UNCHANGED <<now, ticks, nextId>>
       /\ UNCHANGED <<campaignVars, replyVars, classifyVars, stageVars, exceptProcs>>

----------------------------------------------------------------------------
(* list_pending_actions.py *)

ListHidesIfBefore(action, t, include_expired) ==
    action.expires_at # NoTime /\ action.expires_at < t /\ ~include_expired

\* lines 91-95
ListHides(action, t, include_expired) ==
    action.expires_at # NoTime /\ action.expires_at <= t /\ ~include_expired

\* lines 85-119: one pass over data["pending"], in order
RECURSIVE ListLoop(_, _, _, _, _, _)
ListLoop(p, out, i, campaign_id, include_expired, t) ==
    IF i > Len(p) THEN out
    ELSE IF p[i].status # "pending"
    THEN ListLoop(p, out, i + 1, campaign_id, include_expired, t)
    ELSE IF ListHides(p[i], t, include_expired)
    THEN ListLoop(p, out, i + 1, campaign_id, include_expired, t)
    ELSE IF campaign_id # NoCampaign /\ p[i].campaign_id # campaign_id
    THEN ListLoop(p, out, i + 1, campaign_id, include_expired, t)
    ELSE ListLoop(p, Append(out, p[i].id), i + 1, campaign_id, include_expired, t)

\* lines 71-126: the ids of the "pending" list the call prints
ListOutput(p, campaign_id, include_expired, t) ==
    ListLoop(p, <<>>, 1, campaign_id, include_expired, t)

\* the call reads the queue file and writes nothing
ListPending(campaign_id, include_expired) ==
    /\ last' = [NoLast EXCEPT !.op = "list_pending"]
    /\ UNCHANGED <<pending, history, now, ticks, nextId, sentOk, nonQueueVars>>

----------------------------------------------------------------------------
(* the clock *)

Tick(d) ==
    /\ ticks' = ticks + 1
    /\ now' = now + d
    /\ UNCHANGED <<pending, history, nextId, sentOk, last, nonQueueVars>>

----------------------------------------------------------------------------
(* campaign_write.py : the targets document and its metrics rollup *)

\* the canonical stage list
stages == << "identified", "researched", "contacted", "replied",
             "qualified", "booked", "won", "lost" >>
Stages == SeqToSet(stages)
NoStage == ""            \* a stage that is None or "" (falsy)
\* target_data.get("name", "Unknown"), and a name that is None
Unknown == << "U", "n", "k", "n", "o", "w", "n" >>
NoName == << "None" >>
AnnLee == << "A", "n", "n", " ", "L", "e", "e" >>

EmptyMap == [s \in {} |-> 0]

\* get_default_targets_v2() / get_default_targets()
DefaultTargetsV2 ==
    [ has_refs |-> TRUE, target_references |-> <<>>,
      has_targets |-> FALSE, targets |-> <<>> ]
DefaultTargets ==
    [ has_refs |-> FALSE, target_references |-> <<>>,
      has_targets |-> TRUE, targets |-> <<>> ]
\* get_default_metrics()["summary"]
DefaultMetrics ==
    [ total_targets |-> 0, by_stage |-> EmptyMap, emails_sent |-> 0 ]

\* index of the first element of s whose id is id, 0 when there is none
RECURSIVE FindId(_, _, _)
FindId(s, id, i) ==
    IF i > Len(s) THEN 0
    ELSE IF s[i].id = id THEN i
    ELSE FindId(s, id, i + 1)

\* by_stage[stage] = by_stage.get(stage, 0) + 1
Bump(by_stage, stage) ==
    IF stage \in DOMAIN by_stage
    THEN [by_stage EXCEPT ![stage] = @ + 1]
    ELSE by_stage @@ (stage :> 1)

RECURSIVE CountRefs(_, _, _)
CountRefs(refs, i, acc) ==
    IF i > Len(refs) THEN acc
    ELSE CountRefs(refs, i + 1,
            [ by_stage |-> Bump(acc.by_stage, refs[i].campaign_stage),
              total_touches |-> acc.total_touches + refs[i].touch_count ])

update_metrics_count_v2(d, m) ==
    LET refs == IF d.has_refs THEN d.target_references ELSE <<>>
        acc == CountRefs(refs, 1, [by_stage |-> EmptyMap, total_touches |-> 0])
    IN [ m EXCEPT !.total_targets = Len(refs),
                  !.by_stage = acc.by_stage,
                  !.emails_sent = acc.total_touches ]

RECURSIVE CountTargets(_, _, _)
CountTargets(ts, i, by_stage) ==
    IF i > Len(ts) THEN by_stage
    ELSE CountTargets(ts, i + 1, Bump(by_stage, ts[i].stage))

update_metrics_count(d, m) ==
    LET ts == IF d.has_targets THEN d.targets ELSE <<>>
    IN [ m EXCEPT !.total_targets = Len(ts),
                  !.by_stage = CountTargets(ts, 1, EmptyMap) ]

update_touch_metrics(m, channel) ==
    IF channel = "email" THEN [m EXCEPT !.emails_sent = @ + 1] ELSE m

\* the result of one campaign_write operation: exit status and the files
\* it leaves behind
Outcome(status, d, m, p) ==
    [ status |-> status, doc |-> d, metrics |-> m, prospects |-> p ]

NewRef(id, prospect_slug) ==
    [ id |-> id, prospect_slug |-> prospect_slug, last_touch_at |-> NoTime,
      touch_count |-> 0, campaign_stage |-> "identified",
      unsubscribed |-> FALSE ]

add_target_by_prospect(d, m, p, id, prospect_slug) ==
    IF prospect_slug \notin DOMAIN p THEN Outcome("error", d, m, p)
    ELSE LET ref == NewRef(id, prospect_slug)
             d2 == IF d.has_refs
                   THEN [d EXCEPT !.target_references = Append(@, ref)]
                   ELSE [ has_refs |-> TRUE, target_references |-> <<ref>>,
                          has_targets |-> FALSE, targets |-> <<>> ]
         IN Outcome("success", d2, update_metrics_count_v2(d2, m), p)

\* target_data is a mapping that may or may not hold "name", "stage" and
\* "email"
NewTarget(id, target_data) ==
    [ id |-> id,
      name |-> IF "name" \in DOMAIN target_data
               THEN target_data.name ELSE Unknown,
      stage |-> IF "stage" \in DOMAIN target_data
                THEN target_data.stage ELSE "identified",
      email |-> IF "email" \in DOMAIN target_data
                THEN target_data.email ELSE "",
      touches |-> <<>>, unsubscribed |-> FALSE ]

add_target(d, m, p, id, target_data) ==
    LET d1 == IF d.has_targets THEN d
              ELSE [d EXCEPT !.has_targets = TRUE, !.targets = <<>>]
        d2 == [d1 EXCEPT !.targets = Append(@, NewTarget(id, target_data))]
    IN Outcome("success", d2, update_metrics_count(d2, m), p)

\* frontmatter["stage"] = new_stage, on a prospect file that exists
update_prospect_stage_skipped(p, slug, new_stage) == p
update_prospect_stage(p, slug, new_stage) ==
    [p EXCEPT ![slug].stage = new_stage]

update_target_stage_sync(d, m, p, target_id, new_stage) ==
    LET i == FindId(d.target_references, target_id, 1)
    IN IF new_stage = NoStage \/ ~d.has_refs \/ i = 0
       THEN Outcome("error", d, m, p)
       ELSE LET d2 == [d EXCEPT !.target_references[i].campaign_stage = new_stage]
                slug == d.target_references[i].prospect_slug
            IN IF slug \notin DOMAIN p
               THEN Outcome("error", d2, m, p)
               ELSE Outcome("success", d2, update_metrics_count_v2(d2, m),
                            update_prospect_stage(p, slug, new_stage))

\* updates.get(key), None when the key is absent
GetStage(updates) ==
    IF "stage" \in DOMAIN updates THEN updates.stage ELSE NoStage

UpdateRef(ref, updates) ==
    [ ref EXCEPT
        !.campaign_stage = IF "campaign_stage" \in DOMAIN updates
                           THEN updates.campaign_stage ELSE @,
        !.unsubscribed = IF "unsubscribed" \in DOMAIN updates
                         THEN updates.unsubscribed ELSE @,
        !.last_touch_at = IF "last_touch_at" \in DOMAIN updates
                          THEN updates.last_touch_at ELSE @,
        !.touch_count = IF "touch_count" \in DOMAIN updates
                        THEN updates.touch_count ELSE @ ]

UpdateLegacy(target, updates) ==
    [ target EXCEPT
        !.name = IF "name" \in DOMAIN updates THEN updates.name ELSE @,
        !.stage = IF "stage" \in DOMAIN updates THEN updates.stage ELSE @,
        !.email = IF "email" \in DOMAIN updates THEN updates.email ELSE @,
        !.unsubscribed = IF "unsubscribed" \in DOMAIN updates
                         THEN updates.unsubscribed ELSE @ ]

\* if new_stage and new_stage != old_stage
StageChanged(old_stage, new_stage) ==
    new_stage # NoStage /\ new_stage # old_stage

update_target(d, m, p, target_id, updates) ==
    LET i == IF d.has_refs THEN FindId(d.target_references, target_id, 1) ELSE 0
        j == IF d.has_targets THEN FindId(d.targets, target_id, 1) ELSE 0
    IN IF i # 0
       THEN LET d2 == [d EXCEPT !.target_references[i] = UpdateRef(@, updates)]
            IN Outcome("success", d2, update_metrics_count_v2(d2, m), p)
       ELSE IF j # 0
       THEN LET d2 == [d EXCEPT !.targets[j] = UpdateLegacy(@, updates)]
            IN Outcome("success", d2,
                       IF StageChanged(d.targets[j].stage, GetStage(updates))
                       THEN update_metrics_count(d2, m) ELSE m,
                       p)
       ELSE Outcome("error", d, m, p)

\* the v2 branch of record_touch on one reference
TouchRefContacts(ref, t) ==
    [ ref EXCEPT !.last_touch_at = t, !.touch_count = @ + 1,
                 !.campaign_stage = "contacted" ]
TouchRef(ref, t) ==
    [ ref EXCEPT
        !.last_touch_at = t,
        !.touch_count = @ + 1,
        !.campaign_stage = IF @ \in {"identified", "researched"}
                           THEN "contacted" ELSE @ ]

\* touch_data.get("channel", "email")
TouchChannel(touch_data) ==
    IF "channel" \in DOMAIN touch_data THEN touch_data.channel ELSE "email"

record_touch(d, m, p, target_id, touch_data, t) ==
    LET i == IF d.has_refs THEN FindId(d.target_references, target_id, 1) ELSE 0
        j == IF d.has_targets THEN FindId(d.targets, target_id, 1) ELSE 0
    IN IF i # 0
       THEN LET d2 == [d EXCEPT !.target_references[i] = TouchRef(@, t)]
            IN Outcome("success", d2, update_metrics_count_v2(d2, m), p)
       ELSE IF j # 0
       THEN LET touch == [ channel |-> TouchChannel(touch_data), sent_at |-> t ]
                d2 == [d EXCEPT !.targets[j].touches = Append(@, touch)]
            IN Outcome("success", d2, update_touch_metrics(m, touch.channel), p)
       ELSE Outcome("error", d, m, p)

\* what campaign_write never touches
nonCampaignVars == <<queueVars, replyVars, classifyVars, stageVars, toolVars>>

\* one invocation of campaign_write for an operation on targets: every
\* operation raises when the campaign folder does not exist
Invoke(op, r) ==
    LET res == IF campaign_exists THEN r
               ELSE Outcome("error", doc, metrics, prospects)
    IN /\ last' = [op |-> op, status |-> res.status]
       /\ doc' = res.doc
       /\ metrics' = res.metrics
       /\ prospects' = res.prospects
       /\ UNCHANGED <<campaign_exists, nonCampaignVars>>

CreateCampaign ==
    /\ IF campaign_exists
       THEN /\ last' = [op |-> "create", status |-> "error"]
            /\ UNCHANGED <<campaign_exists, doc, metrics>>
       ELSE /\ last' = [op |-> "create", status |-> "success"]
            /\ campaign_exists' = TRUE
            /\ doc' = DefaultTargetsV2
            /\ metrics' = DefaultMetrics
    /\ UNCHANGED <<prospects, nextTid, nonCampaignVars>>

AddTargetByProspect(prospect_slug) ==
    /\ Invoke("add_target_by_prospect",
              add_target_by_prospect(doc, metrics, prospects, nextTid + 1, prospect_slug))
    /\ nextTid' = IF last'.status = "success" THEN nextTid + 1 ELSE nextTid

AddTarget(target_data) ==
    /\ Invoke("add_target",
              add_target(doc, metrics, prospects, nextTid + 1, target_data))
    /\ nextTid' = IF last'.status = "success" THEN nextTid + 1 ELSE nextTid

UpdateTargetStageSync(target_id, new_stage) ==
    /\ Invoke("update_target_stage_sync",
              update_target_stage_sync(doc, metrics, prospects, target_id, new_stage))
    /\ UNCHANGED nextTid

UpdateTarget(target_id, updates) ==
    /\ Invoke("update_target",
              update_target(doc, metrics, prospects, target_id, updates))
    /\ UNCHANGED nextTid

RecordTouch(target_id, touch_data) ==
    /\ Invoke("record_touch",
              record_touch(doc, metrics, prospects, target_id, touch_data, now))
    /\ UNCHANGED nextTid
----------------------------------------------------------------------------
(* process_campaign_replies.py : analyze_reply *)

\* A text is the sequence of its characters.
UpperCase == <<"A","B","C","D","E","F","G","H","I","J","K","L","M",
               "N","O","P","Q","R","S","T","U","V","W","X","Y","Z">>
LowerCase == <<"a","b","c","d","e","f","g","h","i","j","k","l","m",
               "n","o","p","q","r","s","t","u","v","w","x","y","z">>

\* str.lower(), one character
LowerChar(c) ==
    IF \E i \in 1..Len(UpperCase) : UpperCase[i] = c
    THEN LowerCase[CHOOSE i \in 1..Len(UpperCase) : UpperCase[i] = c]
    ELSE c

RECURSIVE LowerFrom(_, _)
LowerFrom(text, i) ==
    IF i > Len(text) THEN <<>>
    ELSE <<LowerChar(text[i])>> \o LowerFrom(text, i + 1)

\* str.lower()
Lower(text) == LowerFrom(text, 1)

\* pattern in text
Contains(pattern, text) ==
    \E k \in 0..(Len(text) - Len(pattern)) :
        \A i \in 1..Len(pattern) : text[k + i] = pattern[i]

\* the categories in the order they are declared, each with its keywords
INTENT_PATTERNS == <<
    [ intent |-> "interested", patterns |-> <<
        <<"i","n","t","e","r","e","s","t","e","d">>,
        <<"t","e","l","l"," ","m","e"," ","m","o","r","e">>,
        <<"s","o","u","n","d","s"," ","g","o","o","d">>,
        <<"l","e","t","'","s"," ","c","h","a","t">>,
        <<"l","e","t","'","s"," ","t","a","l","k">>,
        <<"w","o","u","l","d"," ","l","o","v","e"," ","t","o">>,
        <<"y","e","s"," ","p","l","e","a","s","e">>,
        <<"s","e","n","d"," ","m","e">>,
        <<"s","h","a","r","e"," ","m","o","r","e">>,
        <<"l","e","a","r","n"," ","m","o","r","e">>,
        <<"c","u","r","i","o","u","s"," ","a","b","o","u","t">>
    >> ],
    [ intent |-> "meeting_request", patterns |-> <<
        <<"s","c","h","e","d","u","l","e"," ","a"," ","c","a","l","l">>,
        <<"b","o","o","k"," ","a"," ","m","e","e","t","i","n","g">>,
        <<"s","e","t"," ","u","p"," ","a"," ","t","i","m","e">>,
        <<"c","a","l","e","n","d","a","r">>,
        <<"a","v","a","i","l","a","b","l","e">>,
        <<"f","r","e","e"," ","t","i","m","e">>,
        <<"n","e","x","t"," ","w","e","e","k">>,
        <<"t","h","i","s"," ","w","e","e","k">>,
        <<"t","o","m","o","r","r","o","w">>,
        <<"l","e","t","'","s"," ","m","e","e","t">>,
        <<"1","5"," ","m","i","n","u","t","e","s">>,
        <<"3","0"," ","m","i","n","u","t","e","s">>,
        <<"q","u","i","c","k"," ","c","a","l","l">>
    >> ],
    [ intent |-> "not_interested", patterns |-> <<
        <<"n","o","t"," ","i","n","t","e","r","e","s","t","e","d">>,
        <<"n","o"," ","t","h","a","n","k"," ","y","o","u">>,
        <<"n","o"," ","t","h","a","n","k","s">>,
        <<"n","o","t"," ","a"," ","g","o","o","d"," ","f","i","t">>,
        <<"n","o","t"," ","f","o","r"," ","u","s">>,
        <<"p","a","s","s"," ","o","n"," ","t","h","i","s">>,
        <<"n","o","t"," ","r","i","g","h","t"," ","n","o","w">>,
        <<"m","a","y","b","e"," ","l","a","t","e","r">>,
        <<"n","o","t"," ","a","t"," ","t","h","i","s"," ","t","i","m","e">>,
        <<"w","e","'","r","e"," ","a","l","l"," ","s","e","t">>,
        <<"a","l","r","e","a","d","y"," ","h","a","v","e">>
    >> ],
    [ intent |-> "unsubscribe", patterns |-> <<
        <<"u","n","s","u","b","s","c","r","i","b","e">>,
        <<"s","t","o","p"," ","e","m","a","i","l","i","n","g">>,
        <<"s","t","o","p"," ","c","o","n","t","a","c","t","i","n","g">>,
        <<"r","e","m","o","v","e"," ","m","e">>,
        <<"o","p","t"," ","o","u","t">>,
        <<"o","p","t","-","o","u","t">>,
        <<"d","o"," ","n","o","t"," ","c","o","n","t","a","c","t">>,
        <<"l","e","a","v","e"," ","m","e"," ","a","l","o","n","e">>,
        <<"r","e","m","o","v","e"," ","m","y"," ","e","m","a","i","l">>,
        <<"t","a","k","e"," ","m","e"," ","o","f","f">>
    >> ],
    [ intent |-> "out_of_office", patterns |-> <<
        <<"o","u","t"," ","o","f"," ","o","f","f","i","c","e">>,
        <<"o","n"," ","v","a","c","a","t","i","o","n">>,
        <<"a","w","a","y"," ","f","r","o","m">>,
        <<"l","i","m","i","t","e","d"," ","a","c","c","e","s","s">>,
        <<"r","e","t","u","r","n"," ","o","n">>,
        <<"b","a","c","k"," ","o","n">>,
        <<"a","u","t","o","-","r","e","p","l","y">>,
        <<"a","u","t","o","m","a","t","i","c"," ","r","e","p","l","y">>
    >> ],
    [ intent |-> "question", patterns |-> <<
        <<"h","o","w"," ","d","o","e","s">>,
        <<"w","h","a","t"," ","i","s">>,
        <<"c","a","n"," ","y","o","u"," ","e","x","p","l","a","i","n">>,
        <<"m","o","r","e"," ","i","n","f","o","r","m","a","t","i","o","n">>,
        <<"h","o","w"," ","m","u","c","h">>,
        <<"p","r","i","c","i","n","g">>,
        <<"c","o","s","t">>,
        <<"f","e","a","t","u","r","e","s">>,
        <<"?">>
    >> ]
>>

\* intent_scores[intent] : the keywords of the category found in the text,
\* in the order of the list
RECURSIVE MatchedIn(_, _, _)
MatchedIn(patterns, lower_content, i) ==
    IF i > Len(patterns) THEN <<>>
    ELSE (IF Contains(Lower(patterns[i]), lower_content)
          THEN <<patterns[i]>> ELSE <<>>)
         \o MatchedIn(patterns, lower_content, i + 1)

\* a later category also overtakes on an equal score
OvertakesOnTie(score, top_score) == score >= top_score

\* if score > top_score
Overtakes(score, top_score) == score > top_score

\* the loop that finds the highest scoring intent
RECURSIVE TopIntent(_, _, _)
TopIntent(scores, i, top) ==
    IF i > Len(scores) THEN top
    ELSE TopIntent(scores, i + 1,
            IF Overtakes(scores[i], top.score)
            THEN [intent |-> INTENT_PATTERNS[i].intent, score |-> scores[i]]
            ELSE top)

\* the intent -> (sentiment, suggested_stage, suggested_action) table
IntentTable(intent) ==
    CASE intent = "unsubscribe" ->
            <<"negative", "lost", "mark_unsubscribed">>
      [] intent = "interested" ->
            <<"positive", "replied", "follow_up_with_details">>
      [] intent = "meeting_request" ->
            <<"positive", "qualified", "schedule_meeting">>
      [] intent = "not_interested" ->
            <<"negative", "lost", "close_target">>
      [] intent = "out_of_office" ->
            <<"neutral", NoStage, "wait_and_retry">>
      [] intent = "question" ->
            <<"neutral", "replied", "answer_question">>
      [] OTHER ->
            <<"neutral", "replied", "review_manually">>

RECURSIVE Flatten(_, _)
Flatten(ss, i) == IF i > Len(ss) THEN <<>> ELSE ss[i] \o Flatten(ss, i + 1)

\* confidence, in hundredths
Confidence(top_score) ==
    IF 30 + top_score * 15 < 90 THEN 30 + top_score * 15 ELSE 90

\* the keywords found in the text, category by category
RECURSIVE MatchedFrom(_, _)
MatchedFrom(lower_content, i) ==
    IF i > Len(INTENT_PATTERNS) THEN <<>>
    ELSE <<MatchedIn(INTENT_PATTERNS[i].patterns, lower_content, 1)>>
         \o MatchedFrom(lower_content, i + 1)

RECURSIVE Lengths(_, _)
Lengths(ss, i) ==
    IF i > Len(ss) THEN <<>> ELSE <<Len(ss[i])>> \o Lengths(ss, i + 1)

analyze_reply(text) ==
    LET lower_content == Lower(text)
        matched == MatchedFrom(lower_content, 1)
        scores == Lengths(matched, 1)
        top == TopIntent(scores, 1, [intent |-> "unknown", score |-> 0])
        row == IntentTable(top.intent)
    IN [ sentiment |-> row[1],
         intent |-> top.intent,
         confidence |-> Confidence(top.score),
         suggested_stage |-> row[2],
         suggested_action |-> row[3],
         keywords_matched |-> Flatten(matched, 1) ]

\* no analysis made yet
NoAnalysis ==
    [ sentiment |-> "", intent |-> "", confidence |-> 0,
      suggested_stage |-> "", suggested_action |-> "",
      keywords_matched |-> <<>> ]

\* reply bodies the inbox may hold
\* "Can we book a meeting"
BookMeeting == <<"C","a","n"," ","w","e"," ","b","o","o","k"," ","a"," ","m","e","e","t","i","n","g">>
\* "Tell me more"
TellMore == <<"T","e","l","l"," ","m","e"," ","m","o","r","e">>
\* "Out of office"
OutOfOffice == <<"O","u","t"," ","o","f"," ","o","f","f","i","c","e">>
\* "UNSUBSCRIBE"
Unsubscribe == <<"U","N","S","U","B","S","C","R","I","B","E">>
ReplyTexts == { BookMeeting, TellMore, OutOfOffice, Unsubscribe }

\* pieces of reply text; a classified text is made of up to MaxFragments
\* of them
Fragments == <<
    <<"N","o","t"," ","i","n","t","e","r","e","s","t","e","d">>,   \* "Not interested"
    <<","," ","p","l","e","a","s","e"," ","u","n","s","u","b","s","c","r","i","b","e">>,   \* ", please unsubscribe"
    <<"S","o","u","n","d","s"," ","g","o","o","d">>,   \* "Sounds good"
    <<" ","n","e","x","t"," ","w","e","e","k">>,   \* " next week"
    <<"O","u","t"," ","o","f"," ","o","f","f","i","c","e">>,   \* "Out of office"
    <<" ","p","r","i","c","i","n","g","?">>,   \* " pricing?"
    <<"T","h","a","n","k","s">>,   \* "Thanks"
    <<" ","N","o"," ","t","h","a","n","k","s">>   \* " No thanks"
>>
----------------------------------------------------------------------------
(* process_campaign_replies.py : the stage application decision *)

\* >= in place of >
AdvancesOrEqual(current_idx, suggested_idx) == suggested_idx >= current_idx

\* suggested_idx > current_idx
Advances(current_idx, suggested_idx) == suggested_idx > current_idx

\* stages.index(stage) if stage in stages else 0
StageIndex(stage) ==
    IF stage \in Stages
    THEN (CHOOSE i \in 1..Len(stages) : stages[i] = stage) - 1
    ELSE 0

\* if suggested_stage == "lost" or suggested_idx > current_idx
ApplyDecision(current, suggested) ==
    \/ suggested = "lost"
    \/ Advances(StageIndex(current), StageIndex(suggested))

\* the decision for one (current stage, suggested stage) pair
DecideStage ==
    /\ stage_decision = "undecided"
    /\ stage_decision' = IF ApplyDecision(current_stage, suggested_stage)
                         THEN "applied" ELSE "rejected"
    /\ UNCHANGED <<current_stage, suggested_stage>>
    /\ UNCHANGED <<queueVars, last, campaignVars, replyVars, classifyVars, toolVars>>

\* analyze_reply applied to the reply at hand
Analyze ==
    /\ analysis = NoAnalysis
    /\ analysis' = analyze_reply(content)
    /\ UNCHANGED content
    /\ UNCHANGED <<queueVars, last, campaignVars, replyVars, stageVars, toolVars>>
----------------------------------------------------------------------------
(* process_campaign_replies.py : main *)

\* addresses as they appear in targets.md and in a From header
Senders == { "Ann@x.com", "ann@x.com", "bob@x.com", "eve@y.com" }
MsgIds == { "m1", "m2" }

\* str.lower() on an address
LowerAddress(email) == IF email = "Ann@x.com" THEN "ann@x.com" ELSE email

\* the analysis of each reply body
AnalysisOf == [t \in ReplyTexts |-> analyze_reply(t)]

\* target_emails[email.lower()] = {...}
PutTarget(target_emails, target) ==
    LET key == LowerAddress(target.email)
        info == [ target_id |-> target.id, current_stage |-> target.stage ]
    IN IF key \in DOMAIN target_emails
       THEN [target_emails EXCEPT ![key] = info]
       ELSE target_emails @@ (key :> info)

RECURSIVE TargetEmailsLoop(_, _, _)
TargetEmailsLoop(ts, i, target_emails) ==
    IF i > Len(ts) THEN target_emails
    ELSE TargetEmailsLoop(ts, i + 1,
            IF ts[i].email # "" THEN PutTarget(target_emails, ts[i])
            ELSE target_emails)

\* email -> the target's id and the stage read when the run starts
get_campaign_target_emails(exists, d) ==
    IF exists /\ d.has_targets
    THEN TargetEmailsLoop(d.targets, 1, [e \in {} |-> 0])
    ELSE [e \in {} |-> 0]

\* the stage a target holds in the targets document
StageInDoc(d, target_id) ==
    LET j == FindId(d.targets, target_id, 1)
    IN IF j = 0 THEN NoStage ELSE d.targets[j].stage

\* current_stage = target_info.get("current_stage")
CurrentStage(d, target_info) == target_info.current_stage

\* One pass of the loop over the emails.  st holds the documents as the
\* update_target calls leave them, the processed ids and the stage writes
\* made so far, each with the stage the document held just before it.
RECURSIVE ProcessLoop(_, _, _, _, _)
ProcessLoop(emails, i, target_emails, dry_run, st) ==
    IF i > Len(emails) THEN st
    ELSE
      LET email == emails[i]
          from_email == LowerAddress(email.from)
      IN IF email.id \in st.processed_ids \/ from_email \notin DOMAIN target_emails
         THEN ProcessLoop(emails, i + 1, target_emails, dry_run, st)
         ELSE
           LET target_info == target_emails[from_email]
               suggested == AnalysisOf[email.body].suggested_stage
               applies == /\ ~dry_run
                          /\ suggested # NoStage
                          /\ ApplyDecision(CurrentStage(st.doc, target_info), suggested)
               r == update_target(st.doc, st.metrics, st.prospects,
                                  target_info.target_id, [stage |-> suggested])
               write == [ target_id |-> target_info.target_id,
                          before |-> StageInDoc(st.doc, target_info.target_id),
                          stage |-> suggested,
                          from |-> from_email ]
           IN ProcessLoop(emails, i + 1, target_emails, dry_run,
                [ doc |-> IF applies THEN r.doc ELSE st.doc,
                  metrics |-> IF applies THEN r.metrics ELSE st.metrics,
                  prospects |-> st.prospects,
                  processed_ids |-> st.processed_ids \cup {email.id},
                  writes |-> IF applies /\ r.status = "success"
                             THEN Append(st.writes, write) ELSE st.writes ])

\* one run of process_campaign_replies on the emails Gmail returns
ProcessBatch(exists, d, m, p, ids, emails, dry_run) ==
    LET target_emails == get_campaign_target_emails(exists, d)
        st0 == [ doc |-> d, metrics |-> m, prospects |-> p,
                 processed_ids |-> ids, writes |-> <<>> ]
    IN IF DOMAIN target_emails = {} \/ emails = <<>>
       THEN st0
       ELSE ProcessLoop(emails, 1, target_emails, dry_run, st0)

ProcessReplies(emails, dry_run) ==
    LET r == ProcessBatch(campaign_exists, doc, metrics, prospects,
                          processed_ids, emails, dry_run)
    IN /\ doc' = r.doc
       /\ metrics' = r.metrics
       /\ processed_ids' = IF dry_run THEN processed_ids ELSE r.processed_ids
       /\ stage_writes' = r.writes
       /\ last' = [op |-> "process_campaign_replies", status |-> "success"]
       /\ UNCHANGED <<campaign_exists, prospects, nextTid>>
       /\ UNCHANGED <<queueVars, classifyVars, stageVars, toolVars>>
----------------------------------------------------------------------------
(* prospect_write.py, migrate_targets_to_prospects.py : prospect slugs *)

Whitespace == { " ", "\t", "\n" }
DigitChars == << "0", "1", "2", "3", "4", "5", "6", "7", "8", "9" >>
\* the characters re.sub(r'[^a-z0-9\s-]', '', slug) keeps
SlugChars == SeqToSet(LowerCase) \cup SeqToSet(DigitChars) \cup Whitespace \cup {"-"}

\* str.strip(chars)
RECURSIVE Strip(_, _)
Strip(s, chars) ==
    IF s = <<>> THEN s
    ELSE IF Head(s) \in chars THEN Strip(Tail(s), chars)
    ELSE IF s[Len(s)] \in chars THEN Strip(SubSeq(s, 1, Len(s) - 1), chars)
    ELSE s

\* re.sub(r'[chars]+', rep, s): every maximal run of chars becomes rep
RECURSIVE Squeeze(_, _, _)
Squeeze(s, chars, rep) ==
    IF s = <<>> THEN <<>>
    ELSE IF Head(s) \notin chars THEN <<Head(s)>> \o Squeeze(Tail(s), chars, rep)
    ELSE IF Len(s) > 1 /\ s[2] \in chars THEN Squeeze(Tail(s), chars, rep)
    ELSE <<rep>> \o Squeeze(Tail(s), chars, rep)

\* prospect_write.generate_slug: kebab-case of a name
generate_slug(name) ==
    LET lowered == Strip(Lower(name), Whitespace)
        kept == SelectSeq(lowered, LAMBDA c : c \in SlugChars)
        hyphened == Squeeze(kept, Whitespace, "-")
        collapsed == Squeeze(hyphened, {"-"}, "-")
    IN Strip(collapsed, {"-"})

\* str(counter)
RECURSIVE Decimal(_)
Decimal(n) ==
    IF n < 10 THEN << DigitChars[n + 1] >>
    ELSE Decimal(n \div 10) \o << DigitChars[(n % 10) + 1] >>

\* the while loop of ensure_unique_slug, from the given counter on
RECURSIVE UniqueFrom(_, _, _)
UniqueFrom(slugs, base_slug, counter) ==
    LET slug == base_slug \o <<"-">> \o Decimal(counter)
    IN IF slug \in slugs THEN UniqueFrom(slugs, base_slug, counter + 1)
       ELSE slug

\* slugs: the stems of the files in the prospects folder
ensure_unique_slug_once(slugs, base_slug) ==
    IF base_slug \in slugs THEN base_slug \o << "-", "1" >> ELSE base_slug
ensure_unique_slug(slugs, base_slug) ==
    IF base_slug \in slugs THEN UniqueFrom(slugs, base_slug, 1) ELSE base_slug

----------------------------------------------------------------------------
(* migrate_targets_to_prospects.py *)

NoSlug == <<>>           \* find_prospect_by_email found nothing (None)
unknown == << "u", "n", "k", "n", "o", "w", "n" >>

\* the frontmatter create_prospect_file writes
Prospect(name, email, stage) ==
    [ name |-> name, email |-> email, stage |-> stage ]

\* generate_slug of the migration: slug or "unknown"; raises on a name
\* that is None
migrate_generate_slug(name) ==
    IF generate_slug(name) = <<>> THEN unknown ELSE generate_slug(name)

\* the stem of a prospect file whose email equals the given one, compared
\* in lower case; the folder is walked in directory order, so any of
\* several matching files may be the one returned
find_prospect_by_email(p, email) ==
    LET found == { slug \in DOMAIN p :
                     LowerAddress(p[slug].email) = LowerAddress(email) }
    IN IF found = {} THEN NoSlug ELSE CHOOSE slug \in found : TRUE

\* the reference the migration writes for an inline target
MigratedRef(target, slug) ==
    [ id |-> target.id, prospect_slug |-> slug,
      last_touch_at |-> IF target.touches = <<>> THEN NoTime
                        ELSE target.touches[Len(target.touches)].sent_at,
      touch_count |-> Len(target.touches),
      campaign_stage |-> target.stage,
      unsubscribed |-> target.unsubscribed ]

\* errors.append(...); skipped += 1, for "Target '<name>' has no email -
\* cannot migrate" and for "Failed to migrate '<name>': ..."
SkipUnreported(st, kind, target_name) == [ st EXCEPT !.skipped = @ + 1 ]
Skip(st, kind, target_name) ==
    [ st EXCEPT !.skipped = @ + 1,
                !.errors = Append(@, [kind |-> kind, name |-> target_name]) ]

\* one pass of the loop over the inline targets
MigrateTarget(st, target, dry_run) ==
    LET existing_slug == find_prospect_by_email(st.prospects, target.email)
        create == existing_slug = NoSlug
        slug == IF ~create THEN existing_slug
                ELSE IF dry_run THEN migrate_generate_slug(target.name)
                ELSE ensure_unique_slug(DOMAIN st.prospects,
                                        migrate_generate_slug(target.name))
    IN IF target.email = "" THEN Skip(st, "no_email", target.name)
       ELSE IF create /\ target.name = NoName
       THEN Skip(st, "failed", target.name)
       ELSE [ st EXCEPT
                !.migrated = @ + 1,
                !.new_references = Append(@, MigratedRef(target, slug)),
                !.prospects =
                    IF create /\ ~dry_run
                    THEN @ @@ (slug :> Prospect(target.name, target.email,
                                                target.stage))
                    ELSE @ ]

RECURSIVE MigrateLoop(_, _, _, _)
MigrateLoop(targets, i, dry_run, st) ==
    IF i > Len(targets) THEN st
    ELSE MigrateLoop(targets, i + 1, dry_run,
                     MigrateTarget(st, targets[i], dry_run))

\* the targets document the migration writes
MigratedDocAppends(d, new_references) ==
    [ d EXCEPT !.has_refs = TRUE, !.target_references = @ \o new_references ]
MigratedDoc(d, new_references) ==
    [ has_refs |-> TRUE, target_references |-> new_references,
      has_targets |-> FALSE, targets |-> <<>> ]

NoMigration == [ migrated |-> 0, skipped |-> 0, errors |-> <<>>, run |-> "none" ]

\* the report of a run and the files it leaves behind
migrate_campaign(exists, d, p, dry_run) ==
    LET st0 == [ migrated |-> 0, skipped |-> 0, errors |-> <<>>,
                 new_references |-> <<>>, prospects |-> p ]
        st == MigrateLoop(d.targets, 1, dry_run, st0)
        report(s, run) == [ migrated |-> s.migrated, skipped |-> s.skipped,
                            errors |-> s.errors, run |-> run ]
    IN IF ~exists
       THEN [ status |-> "error", doc |-> d, prospects |-> p,
              report |-> report(st0, "not found") ]
       ELSE IF d.has_refs /\ ~d.has_targets
       THEN [ status |-> "success", doc |-> d, prospects |-> p,
              report |-> report(st0, "already migrated") ]
       ELSE IF d.targets = <<>>
       THEN [ status |-> "success", doc |-> d, prospects |-> p,
              report |-> report(st0, "no targets") ]
       ELSE [ status |-> "success",
              doc |-> IF ~dry_run /\ st.new_references # <<>>
                      THEN MigratedDoc(d, st.new_references) ELSE d,
              prospects |-> st.prospects,
              report |-> report(st, IF dry_run THEN "would migrate"
                                    ELSE "migrated") ]

\* python migrate_targets_to_prospects.py, for the one campaign
Migrate(dry_run) ==
    LET r == migrate_campaign(campaign_exists, doc, prospects, dry_run)
    IN /\ doc' = r.doc
       /\ prospects' = r.prospects
       /\ migration' = r.report
       /\ last' = [op |-> "migrate", status |-> r.status]
       /\ UNCHANGED <<campaign_exists, metrics, nextTid>>
       /\ UNCHANGED <<queueVars, replyVars, classifyVars, stageVars>>
       /\ UNCHANGED exceptMigration
----------------------------------------------------------------------------
(* campaign_write.py : create_campaign and the campaign folders *)

\* the five documents of a campaign, in the order create writes them
CampaignDocs == << "config", "targets", "sequence", "metrics", "log" >>

\* re.sub(r'[^a-z0-9-]', '-', name.lower())
RECURSIVE sanitize_name(_)
sanitize_name(name) ==
    IF name = <<>> THEN <<>>
    ELSE LET c == LowerChar(Head(name))
         IN << IF c \in SeqToSet(LowerCase) \cup SeqToSet(DigitChars) \cup {"-"}
               THEN c ELSE "-" >> \o sanitize_name(Tail(name))

\* merging the overrides into the default config raises when "audience",
\* "channels" or "settings" is given and is not a mapping
MergeRaises(data) ==
    \E key \in {"audience", "channels", "settings"} \cap DOMAIN data :
        ~data[key].is_mapping

NoCreate == [ path |-> <<>>, written |-> 0 ]

\* create_campaign up to its first write: the existence check, mkdir and
\* the merge of the overrides
CreateStart(name, data) ==
    LET path == sanitize_name(name)
    IN /\ creating = NoCreate
       /\ IF path \in DOMAIN folders
          THEN /\ last' = [op |-> "create", status |-> "error"]
               /\ UNCHANGED <<folders, creating>>
          ELSE /\ folders' = folders @@ (path :> {})
               /\ IF MergeRaises(data)
                  THEN /\ last' = [op |-> "create", status |-> "error"]
                       /\ UNCHANGED creating
                  ELSE /\ creating' = [ path |-> path, written |-> 0 ]
                       /\ last' = [op |-> "create", status |-> "running"]
       /\ UNCHANGED <<exceptCreate, nonToolVars>>

\* the next write_campaign_file of the running create; the call returns
\* after the fifth
CreateWrite ==
    /\ creating # NoCreate
    /\ folders' = [ folders EXCEPT ![creating.path] =
                        @ \cup { CampaignDocs[creating.written + 1] } ]
    /\ IF creating.written + 1 = Len(CampaignDocs)
       THEN /\ creating' = NoCreate
            /\ last' = [op |-> "create", status |-> "success"]
       ELSE /\ creating' = [ creating EXCEPT !.written = @ + 1 ]
            /\ UNCHANGED last
    /\ UNCHANGED <<exceptCreate, nonToolVars>>

\* the process running create is killed, or a write fails, between two
\* writes
CreateInterrupted ==
    /\ creating # NoCreate
    /\ creating' = NoCreate
    /\ last' = [op |-> "create", status |-> "interrupted"]
    /\ UNCHANGED <<folders, exceptCreate, nonToolVars>>

\* add_target on a named campaign, as far as the folder is concerned:
\* the folder must exist; a missing targets.md or metrics.md is read as
\* its default and then written
AddTargetIn(name) ==
    LET path == sanitize_name(name)
    IN /\ creating = NoCreate
       /\ IF path \in DOMAIN folders
          THEN /\ folders' = [ folders EXCEPT ![path] = @ \cup {"targets", "metrics"} ]
               /\ last' = [op |-> "add_target", status |-> "success"]
          ELSE /\ last' = [op |-> "add_target", status |-> "error"]
               /\ UNCHANGED folders
       /\ UNCHANGED <<creating, exceptCreate, nonToolVars>>

----------------------------------------------------------------------------
(* prospect_write.py : create *)

\* data.get(key, "").strip()
Field(data, key) ==
    IF key \in DOMAIN data THEN Strip(data[key], Whitespace) ELSE <<>>

\* the slug create_prospect picks for the given data
CreatedSlug(p, data) ==
    ensure_unique_slug(DOMAIN p, generate_slug(Field(data, "name")))

\* python prospect_write.py with operation "create"
CreateProspect(data) ==
    LET name == Field(data, "name")
        email == Field(data, "email")
        slug == CreatedSlug(prospects, data)
    IN /\ IF name = <<>> \/ email = <<>>
          THEN /\ last' = [op |-> "create_prospect", status |-> "error"]
               /\ UNCHANGED <<prospects, created>>
          ELSE /\ prospects' =
                    [ s \in DOMAIN prospects \cup {slug} |->
                        IF s = slug THEN Prospect(name, email, "identified")
                        ELSE prospects[s] ]
               /\ created' = Append(created, [slug |-> slug, name |-> name])
               /\ last' = [op |-> "create_prospect", status |-> "success"]
       /\ UNCHANGED <<campaign_exists, doc, metrics, nextTid>>
       /\ UNCHANGED <<queueVars, replyVars, classifyVars, stageVars>>
       /\ UNCHANGED exceptProspects

----------------------------------------------------------------------------
(* campaign_write.py : log_event *)

\* if len(data["events"]) > 1000: data["events"] = data["events"][:1000]
TruncateKeepsOldest(events) ==
    IF Len(events) > LogCap
    THEN SubSeq(events, Len(events) - LogCap + 1, Len(events)) ELSE events
Truncate(events) ==
    IF Len(events) > LogCap THEN SubSeq(events, 1, LogCap) ELSE events

\* data["events"].insert(0, event), then the cap; an event is identified
\* by the number of the call that logged it
log_event(events, event) == Truncate(<<event>> \o events)

\* python campaign_write.py with operation "log_event"
LogEvent ==
    /\ IF campaign_exists
       THEN /\ log' = log_event(log, [n |-> logged + 1, type |-> "NOTE"])
            /\ logged' = logged + 1
            /\ last' = [op |-> "log_event", status |-> "success"]
       ELSE /\ last' = [op |-> "log_event", status |-> "error"]
            /\ UNCHANGED <<log, logged>>
    /\ UNCHANGED <<exceptLog, nonToolVars>>

----------------------------------------------------------------------------
(* life_write.py : append and remove on an array of the frontmatter *)

\* JSON values, by Python type
None == [ kind |-> "null" ]
StrV(s) == [ kind |-> "str", s |-> s ]
IntV(n) == [ kind |-> "int", n |-> n ]
BoolV(b) == [ kind |-> "bool", b |-> b ]
DictV(fields) == [ kind |-> "dict", fields |-> fields ]
ListV(items) == [ kind |-> "list", items |-> items ]
EmptyDict == [ k \in {} |-> None ]

\* isinstance(value, int): bool is a subclass of int
IsInt(value) == value.kind \in {"int", "bool"}
\* the integer a Python int or bool is
IntOf(value) == IF value.kind = "int" THEN value.n ELSE IF value.b THEN 1 ELSE 0
\* a == b in Python, for the values above: True == 1 and False == 0
PyEq(a, b) == IF IsInt(a) /\ IsInt(b) THEN IntOf(a) = IntOf(b) ELSE a = b

\* item.get("id")
ItemId(item) == IF "id" \in DOMAIN item.fields THEN item.fields.id ELSE None

\* isinstance(value, dict) and "id" in value
HasId(value) == value.kind = "dict" /\ "id" \in DOMAIN value.fields

\* index of the first mapping of items whose id equals id, 0 if none
RECURSIVE FirstWithId(_, _, _)
FirstWithId(items, id, i) ==
    IF i > Len(items) THEN 0
    ELSE IF items[i].kind = "dict" /\ PyEq(ItemId(items[i]), id) THEN i
    ELSE FirstWithId(items, id, i + 1)

\* the array after append_to_array: replace in place the first mapping
\* with the value's id, else add at the end
UpsertAddsAtEnd(items, value) == Append(items, value)
Upsert(items, value) ==
    LET i == IF HasId(value) THEN FirstWithId(items, value.fields.id, 1) ELSE 0
    IN IF i # 0 THEN [items EXCEPT ![i] = value] ELSE Append(items, value)

\* append_to_array below the mapping fields, along the keys of the path;
\* ok is FALSE when it raises
RECURSIVE AppendAt(_, _, _)
AppendAt(fields, keys, value) ==
    LET key == Head(keys)
        raised == [ ok |-> FALSE, fields |-> fields ]
    IN IF Len(keys) = 1
       THEN IF key \notin DOMAIN fields
            THEN [ ok |-> TRUE,
                   fields |-> fields @@ (key :> ListV(Upsert(<<>>, value))) ]
            ELSE IF fields[key].kind # "list" THEN raised
            ELSE [ ok |-> TRUE,
                   fields |-> [ fields EXCEPT
                                  ![key] = ListV(Upsert(@.items, value)) ] ]
       ELSE LET child == IF key \in DOMAIN fields THEN fields[key]
                         ELSE DictV(EmptyDict)
            IN IF child.kind # "dict" THEN raised
               ELSE LET r == AppendAt(child.fields, Tail(keys), value)
                    IN IF r.ok
                       THEN [ ok |-> TRUE,
                              fields |-> (key :> DictV(r.fields)) @@ fields ]
                       ELSE raised

append_to_array(data, path, value) == AppendAt(data, path, value)

\* the array after remove_from_array
RemoveItems(items, value) ==
    IF IsInt(value)
    THEN IF 0 <= IntOf(value) /\ IntOf(value) < Len(items)
         THEN SubSeq(items, 1, IntOf(value))
                \o SubSeq(items, IntOf(value) + 2, Len(items))
         ELSE items
    ELSE IF HasId(value)
    THEN SelectSeq(items, LAMBDA item :
            ~(item.kind = "dict" /\ PyEq(ItemId(item), value.fields.id)))
    ELSE SelectSeq(items, LAMBDA item : ~PyEq(item, value))

RECURSIVE RemoveAt(_, _, _)
RemoveAt(fields, keys, value) ==
    LET key == Head(keys)
        raised == [ ok |-> FALSE, fields |-> fields ]
    IN IF key \notin DOMAIN fields THEN raised
       ELSE IF Len(keys) = 1
       THEN IF fields[key].kind # "list" THEN raised
            ELSE [ ok |-> TRUE,
                   fields |-> [ fields EXCEPT
                                  ![key] = ListV(RemoveItems(@.items, value)) ] ]
       ELSE IF fields[key].kind # "dict" THEN raised
       ELSE LET r == RemoveAt(fields[key].fields, Tail(keys), value)
            IN IF r.ok
               THEN [ ok |-> TRUE,
                      fields |-> [ fields EXCEPT ![key] = DictV(r.fields) ] ]
               ELSE raised

remove_from_array(data, path, value) == RemoveAt(data, path, value)

\* str(uuid.uuid4())[:8], the k-th id generated
GeneratedIds == << "g1", "g2", "g3", "g4", "g5" >>

\* value["id"] = generate_id(), for a mapping without id
WithId(value, k) ==
    IF value.kind = "dict" /\ "id" \notin DOMAIN value.fields
    THEN DictV(value.fields @@ [id |-> StrV(GeneratedIds[k])])
    ELSE value

\* python life_write.py with operation "append"
LifeAppend(path, value) ==
    LET r == append_to_array(life, path, WithId(value, nextLid + 1))
    IN /\ IF value # None /\ r.ok
          THEN /\ life' = r.fields
               /\ appends' = appends + 1
               /\ last' = [op |-> "append", status |-> "success"]
          ELSE /\ last' = [op |-> "append", status |-> "error"]
               /\ UNCHANGED <<life, appends>>
       /\ nextLid' = IF value # None /\ WithId(value, nextLid + 1) # value
                     THEN nextLid + 1 ELSE nextLid
       /\ UNCHANGED <<exceptLife, nonToolVars>>

\* python life_write.py with operation "remove"
LifeRemove(path, value) ==
    LET r == remove_from_array(life, path, value)
    IN /\ IF value # None /\ r.ok
          THEN /\ life' = r.fields
               /\ last' = [op |-> "remove", status |-> "success"]
          ELSE /\ last' = [op |-> "remove", status |-> "error"]
               /\ UNCHANGED life
       /\ UNCHANGED <<appends, nextLid, exceptLife, nonToolVars>>

\* the value the merge branch finds at the path: {} as soon as a key is
\* missing or the value walked into is not a mapping
RECURSIVE Current(_, _)
Current(value, keys) ==
    IF keys = <<>> THEN value
    ELSE IF value.kind = "dict" /\ Head(keys) \in DOMAIN value.fields
         THEN Current(value.fields[Head(keys)], Tail(keys))
         ELSE DictV(EmptyDict)

\* set_nested_value below the mapping fields: a key on the way that is
\* missing or holds no mapping is replaced by a new mapping
RECURSIVE set_nested_value(_, _, _)
set_nested_value(fields, keys, value) ==
    LET key == Head(keys)
        child == IF key \in DOMAIN fields /\ fields[key].kind = "dict"
                 THEN fields[key].fields ELSE EmptyDict
    IN IF Len(keys) = 1 THEN (key :> value) @@ fields
       ELSE (key :> DictV(set_nested_value(child, Tail(keys), value))) @@ fields

\* deep_merge: mappings on both sides are merged key by key, anywhere else
\* the incoming value wins
RECURSIVE deep_merge(_, _)
deep_merge(base, update) ==
    [ key \in DOMAIN base \cup DOMAIN update |->
        IF key \notin DOMAIN update THEN base[key]
        ELSE IF /\ key \in DOMAIN base
                /\ base[key].kind = "dict" /\ update[key].kind = "dict"
             THEN DictV(deep_merge(base[key].fields, update[key].fields))
             ELSE update[key] ]

\* bool(value), for the values above
Truthy(value) ==
    CASE value.kind = "null" -> FALSE
      [] value.kind = "str"  -> value.s # ""
      [] value.kind = "int"  -> value.n # 0
      [] value.kind = "bool" -> value.b
      [] value.kind = "dict" -> DOMAIN value.fields # {}
      [] value.kind = "list" -> value.items # <<>>

\* the merge branch of main: the document that is written back; a value
\* that is no mapping or an empty one is skipped without raising
MergeSkips(value) == ~(Truthy(value) /\ value.kind = "dict")

Merge(data, path, value) ==
    IF MergeSkips(value) THEN data
    ELSE IF path # <<>>
    THEN IF Current(DictV(data), path).kind = "dict"
         THEN set_nested_value(data, path,
                DictV(deep_merge(Current(DictV(data), path).fields, value.fields)))
         ELSE set_nested_value(data, path, value)
    ELSE deep_merge(data, value.fields)

\* python life_write.py with operation "merge"; a path of <<>> is a call
\* without path.  No branch of the operation raises, the file is written
\* and success is returned.
LifeMerge(path, value) ==
    /\ life' = Merge(life, path, value)
    /\ last' = [op |-> "merge", status |-> "success"]
    /\ UNCHANGED <<appends, nextLid, exceptLife, nonToolVars>>

----------------------------------------------------------------------------
(* life_write.py, campaign_write.py : the ---json frontmatter *)

\* json.dumps(data, indent=2, ensure_ascii=False) of the documents used,
\* as the library writes them
JsonTexts ==
    <<
      [ data |->
          EmptyDict,
        text |->
          << "{", "}" >> ],
      [ data |->
          [ version |-> IntV(2) ],
        text |->
          << "{", "\n", " ", " ", "\"", "v", "e", "r", "s", "i", "o",
             "n", "\"", ":", " ", "2", "\n", "}" >> ],
      [ data |->
          [ name |-> StrV("x\n---\ny") ],
        text |->
          << "{", "\n", " ", " ", "\"", "n", "a", "m", "e", "\"",
             ":", " ", "\"", "x", "\\", "n", "-", "-", "-",
             "\\", "n", "y", "\"", "\n", "}" >> ],
      [ data |->
          [ targets |-> ListV(<< DictV([ id |-> StrV("t1"), unsubscribed |-> BoolV(FALSE) ]) >>) ],
        text |->
          << "{", "\n", " ", " ", "\"", "t", "a", "r", "g", "e", "t",
             "s", "\"", ":", " ", "[", "\n", " ", " ", " ",
             " ", "{", "\n", " ", " ", " ", " ", " ", " ",
             "\"", "i", "d", "\"", ":", " ", "\"", "t",
             "1", "\"", ",", "\n", " ", " ", " ", " ", " ",
             " ", "\"", "u", "n", "s", "u", "b", "s", "c",
             "r", "i", "b", "e", "d", "\"", ":", " ", "f",
             "a", "l", "s", "e", "\n", " ", " ", " ", " ",
             "}", "\n", " ", " ", "]", "\n", "}" >> ],
      [ data |->
          [ goal |-> None, tags |-> ListV(<< StrV("a") >>) ],
        text |->
          << "{", "\n", " ", " ", "\"", "g", "o", "a", "l", "\"",
             ":", " ", "n", "u", "l", "l", ",", "\n", " ",
             " ", "\"", "t", "a", "g", "s", "\"", ":", " ",
             "[", "\n", " ", " ", " ", " ", "\"", "a",
             "\"", "\n", " ", " ", "]", "\n", "}" >> ]
    >>

json_dumps(data) ==
    JsonTexts[CHOOSE i \in 1..Len(JsonTexts) : JsonTexts[i].data = data].text

\* json.loads: ok is FALSE for JSONDecodeError, which is what any text
\* other than the ones above is taken to raise
json_loads(text) ==
    IF \E i \in 1..Len(JsonTexts) : JsonTexts[i].text = text
    THEN [ ok |-> TRUE,
           data |-> JsonTexts[CHOOSE i \in 1..Len(JsonTexts) :
                                 JsonTexts[i].text = text].data ]
    ELSE [ ok |-> FALSE, data |-> EmptyDict ]

Opening == << "-", "-", "-", "j", "s", "o", "n" >>
Closing == << "\n", "-", "-", "-" >>

\* f"---json\n{json_str}\n---\n{markdown}"
serialize_frontmatter(data, markdown) ==
    Opening \o << "\n" >> \o json_dumps(data) \o Closing \o << "\n" >> \o markdown

\* text[i..] starts with pattern
StartsAt(text, i, pattern) ==
    /\ i + Len(pattern) - 1 <= Len(text)
    /\ \A k \in 1..Len(pattern) : text[i + k - 1] = pattern[k]

\* the ends a of "---json\s*\n" : text[8..a-1] is whitespace, text[a] = "\n"
HeaderEnds(text) ==
    { a \in (Len(Opening) + 1)..Len(text) :
        /\ text[a] = "\n"
        /\ \A k \in (Len(Opening) + 1)..(a - 1) : text[k] \in Whitespace }

\* the starts of a "\n---" after position a
ClosingsAfter(text, a) ==
    { b \in (a + 1)..Len(text) : StartsAt(text, b, Closing) }

\* lstrip: "\s*\n?(.*)$" gives the whitespace to \s*, the rest to the group
RECURSIVE LStrip(_)
LStrip(text) ==
    IF text # <<>> /\ Head(text) \in Whitespace THEN LStrip(Tail(text)) ELSE text

Max(S) == CHOOSE x \in S : \A y \in S : y <= x
Min(S) == CHOOSE x \in S : \A y \in S : x <= y

\* re.match(r'^---json\s*\n(.*?)\n---\s*\n?(.*)$', content, re.DOTALL):
\* \s* takes as much as a match allows, (.*?) as little; then json.loads
\* of the first group. Without a match, or on JSONDecodeError, the result
\* is ({}, content).
parse_frontmatter(text) ==
    LET ends == IF StartsAt(text, 1, Opening)
                THEN { a \in HeaderEnds(text) : ClosingsAfter(text, a) # {} }
                ELSE {}
        a == Max(ends)
        b == Min(ClosingsAfter(text, a))
        loaded == json_loads(SubSeq(text, a + 1, b - 1))
    IN IF ends = {} \/ ~loaded.ok
       THEN [ data |-> EmptyDict, markdown |-> text ]
       ELSE [ data |-> loaded.data,
              markdown |-> LStrip(SubSeq(text, b + Len(Closing), Len(text))) ]

NoFrontmatter ==
    [ stage |-> "none", data |-> EmptyDict, markdown |-> <<>>, text |-> <<>>,
      parsed |-> [ data |-> EmptyDict, markdown |-> <<>> ] ]

\* write_campaign_file / the write of life_write: the file text for the
\* data and markdown at hand
Serialize ==
    /\ frontmatter.stage = "given"
    /\ frontmatter' =
        [ frontmatter EXCEPT
            !.stage = "written",
            !.text = serialize_frontmatter(frontmatter.data, frontmatter.markdown) ]
    /\ UNCHANGED <<last, exceptFrontmatter, nonToolVars>>

\* read_campaign_file / the read of life_write on that file
Parse ==
    /\ frontmatter.stage = "written"
    /\ frontmatter' =
        [ frontmatter EXCEPT
            !.stage = "parsed",
            !.parsed = parse_frontmatter(frontmatter.text) ]
    /\ UNCHANGED <<last, exceptFrontmatter, nonToolVars>>

----------------------------------------------------------------------------
(* prospect_write.py : the four sections of the markdown body *)

\* the section titles, in the order of the pattern's alternation
BusinessContext ==
    << "B", "u", "s", "i", "n", "e", "s", "s", " ", "C", "o", "n", "t", "e",
       "x", "t" >>
ResearchNotes ==
    << "R", "e", "s", "e", "a", "r", "c", "h", " ", "N", "o", "t", "e", "s" >>
PersonalizationHooks ==
    << "P", "e", "r", "s", "o", "n", "a", "l", "i", "z", "a", "t", "i", "o",
       "n", " ", "H", "o", "o", "k", "s" >>
InteractionHistory ==
    << "I", "n", "t", "e", "r", "a", "c", "t", "i", "o", "n", " ", "H", "i",
       "s", "t", "o", "r", "y" >>
SectionTitles ==
    << BusinessContext, ResearchNotes, PersonalizationHooks, InteractionHistory >>
HeadingMark == << "#", "#", " " >>
NextHeading == << "\n", "#", "#", " " >>
NoSections == [ k \in 1..4 |-> <<>> ]

\* the title k for which "## <title>" stands at position s of the text, 0
\* if none does
HeadingAt(text, s) ==
    IF \E k \in 1..4 : StartsAt(text, s, HeadingMark \o SectionTitles[k])
    THEN CHOOSE k \in 1..4 : StartsAt(text, s, HeadingMark \o SectionTitles[k])
    ELSE 0

\* \s*\n from position p on: the greedy \s* gives back up to the last
\* newline of the whitespace that follows the title; the position after
\* that newline, 0 if the whitespace holds no newline
RECURSIVE SpaceEnds(_, _)
SpaceEnds(text, p) ==
    IF p <= Len(text) /\ text[p] \in Whitespace THEN SpaceEnds(text, p + 1) ELSE p
ContentStarts(text, p) ==
    LET newlines == { j \in p..(SpaceEnds(text, p) - 1) : text[j] = "\n" }
    IN IF newlines = {} THEN 0 ELSE Max(newlines) + 1

\* ([\s\S]*?)(?=\n## |$) from position c on: the first position at which
\* "\n## " follows or the text ends ($ also matches before a last newline)
RECURSIVE ContentEnds(_, _)
ContentEnds(text, c) ==
    IF \/ c > Len(text)
       \/ StartsAt(text, c, NextHeading)
       \/ (c = Len(text) /\ text[c] = "\n")
    THEN c
    ELSE ContentEnds(text, c + 1)

\* re.finditer from position s on: each match sets the section of its
\* title to the stripped content, a later match of a title replacing an
\* earlier one
RECURSIVE ScanSections(_, _, _)
ScanSections(text, s, sections) ==
    IF s > Len(text) THEN sections
    ELSE LET k == HeadingAt(text, s)
             c == IF k = 0 THEN 0
                  ELSE ContentStarts(text, s + 3 + Len(SectionTitles[k]))
             e == ContentEnds(text, c)
         IN IF c = 0 THEN ScanSections(text, s + 1, sections)
            ELSE ScanSections(text, e,
                    [ sections EXCEPT
                        ![k] = Strip(SubSeq(text, c, e - 1), Whitespace) ])

\* sections 1..4 are business_context, research_notes,
\* personalization_hooks and interaction_history
parse_body_sections(markdown) == ScanSections(markdown, 1, NoSections)

\* "\n".join of the four headings, the four texts and the three empty lines
build_markdown_body(sections) ==
    HeadingMark \o BusinessContext \o << "\n" >> \o sections[1] \o << "\n", "\n" >>
      \o HeadingMark \o ResearchNotes \o << "\n" >> \o sections[2] \o << "\n", "\n" >>
      \o HeadingMark \o PersonalizationHooks \o << "\n" >> \o sections[3]
      \o << "\n", "\n" >>
      \o HeadingMark \o InteractionHistory \o << "\n" >> \o sections[4]

\* the sections update_prospect writes back for the sections it read
AppendHistory(section, text) ==
    IF section # <<>> THEN section \o << "\n", "\n" >> \o text ELSE text

UpdateSections(sections, updates) ==
    [ k \in 1..4 |->
        IF k = 1 /\ "business_context" \in DOMAIN updates
            THEN updates.business_context
        ELSE IF k = 2 /\ "research_notes" \in DOMAIN updates
            THEN updates.research_notes
        ELSE IF k = 3 /\ "personalization_hooks" \in DOMAIN updates
            THEN updates.personalization_hooks
        ELSE IF k = 4 /\ "interaction_history_append" \in DOMAIN updates
            THEN AppendHistory(sections[4], updates.interaction_history_append)
        ELSE sections[k] ]

\* the markdown parse_frontmatter hands to update_prospect for a body
ReadBody(markdown) == LStrip(markdown)

\* python prospect_write.py with operation "update"
UpdateProspect(slug, updates) ==
    /\ IF slug \notin DOMAIN prospects
       THEN /\ last' = [op |-> "update_prospect", status |-> "error"]
            /\ UNCHANGED <<prospects, body, appended>>
       ELSE /\ prospects' =
                [ prospects EXCEPT
                    ![slug].stage = IF "stage" \in DOMAIN updates
                                    THEN updates.stage ELSE @ ]
            /\ body' =
                [ body EXCEPT
                    ![slug] = build_markdown_body(
                        UpdateSections(parse_body_sections(ReadBody(@)), updates)) ]
            /\ appended' =
                IF "interaction_history_append" \in DOMAIN updates
                THEN Append(appended, updates.interaction_history_append)
                ELSE appended
            /\ last' = [op |-> "update_prospect", status |-> "success"]
    /\ UNCHANGED <<campaign_exists, doc, metrics, nextTid>>
    /\ UNCHANGED <<queueVars, replyVars, classifyVars, stageVars, exceptNotes>>

----------------------------------------------------------------------------
(* The approval queue *)

QueueInit ==
    /\ pending = <<>>
    /\ history = <<>>
    /\ now = 0
    /\ ticks = 0
    /\ nextId = 0
    /\ sentOk = {}
    /\ last = NoLast

PendingIds == { pending[i].id : i \in 1..Len(pending) }

\* the campaign store, the reply state and the classifier at rest
CampaignIdle ==
    /\ campaign_exists = FALSE
    /\ doc = DefaultTargetsV2
    /\ metrics = DefaultMetrics
    /\ prospects = [s \in {} |-> ""]
    /\ nextTid = 0
ReplyIdle == processed_ids = {} /\ stage_writes = <<>>
ClassifyIdle == content = <<>> /\ analysis = NoAnalysis
StageIdle ==
    /\ current_stage = NoStage
    /\ suggested_stage = NoStage
    /\ stage_decision = "undecided"
\* no migration has run
MigrationIdle == migration = NoMigration
\* no campaign folder exists and no create is running
CreateIdle == folders = [f \in {} |-> {}] /\ creating = NoCreate
\* prospect_write has created no prospect
ProspectsIdle == created = <<>>
\* nothing was logged
LogIdle == log = <<>> /\ logged = 0
\* no life file is at hand
LifeIdle == life = [k \in {} |-> 0] /\ appends = 0 /\ nextLid = 0
\* no file text is at hand
FrontmatterIdle == frontmatter = NoFrontmatter
\* no prospect body is at hand
NotesIdle == body = [s \in {} |-> <<>>] /\ appended = <<>>
\* no invocation is running beside another
ProcsIdle == procs = [p \in Procs |-> NoProc]
ToolsIdle ==
    /\ MigrationIdle /\ CreateIdle /\ ProspectsIdle /\ LogIdle /\ LifeIdle
    /\ FrontmatterIdle /\ NotesIdle /\ ProcsIdle

\* Approval lifecycle: queue / approve / execute with every sender outcome,
\* the clock standing still
Init ==
    /\ QueueInit /\ CampaignIdle /\ ReplyIdle /\ ClassifyIdle /\ StageIdle
    /\ ToolsIdle

DoQueueAction ==
    /\ nextId < MaxActions
    /\ \E k \in ActionKinds : QueueAction("c1", k)
DoApprove ==
    \E ids \in SUBSET IdPool, all \in BOOLEAN : Approve(ids, all, NoCampaign)
\* the answers of the senders to one execute call; an action that is not
\* approved or not named by the call is given the one answer "success", its
\* sender not being due to run
SenderAnswers(ids) ==
    LET due == { pending[i].id : i \in
                   { j \in 1..Len(pending) :
                       /\ pending[j].status = "approved"
                       /\ (ids = {} \/ pending[j].id \in ids) } }
    IN { [i \in PendingIds |-> IF i \in due THEN g[i] ELSE "success"] :
           g \in [due -> SenderOutcomes] }

DoExecute ==
    \E ids \in SUBSET IdPool : \E oc \in SenderAnswers(ids) : Execute(ids, FALSE, oc)

DoDryRun ==
    \E ids \in SUBSET IdPool :
        Execute(ids, TRUE, [i \in PendingIds |-> "success"])

Next == DoQueueAction \/ DoApprove \/ DoExecute \/ DoDryRun

Spec == Init /\ [][Next]_vars

\* Expiry: the same operations with the clock running, campaign filters and
\* list_pending; the sender always succeeds
ExpiryIds == 1..MaxExpiryActions

XQueueAction ==
    /\ nextId < MaxExpiryActions
    /\ \E c \in Campaigns : QueueAction(c, <<"send_email", "email">>)
\* approve by ids, or approve_all with or without a campaign filter
XApprove ==
    \/ \E ids \in SUBSET ExpiryIds : Approve(ids, FALSE, NoCampaign)
    \/ \E c \in Campaigns \cup {NoCampaign} : Approve({}, TRUE, c)
XExecute ==
    \E ids \in SUBSET ExpiryIds :
        Execute(ids, FALSE, [i \in PendingIds |-> "success"])
XListPending ==
    \E c \in Campaigns \cup {NoCampaign}, inc \in BOOLEAN : ListPending(c, inc)
XTick == ticks < MaxTicks /\ \E d \in TickSteps : Tick(d)

NextExpiry == XQueueAction \/ XApprove \/ XExecute \/ XListPending \/ XTick

SpecExpiry == Init /\ [][NextExpiry]_vars

----------------------------------------------------------------------------
(* The campaign target store *)

P1 == << "p", "1" >>
Slugs == { P1, << "g", "h", "o", "s", "t" >> }
TargetIds == 1..MaxTargets
\* the data of an add_target call
TargetData == { [email |-> "ann@x.com"],
                [email |-> "bob@x.com", stage |-> "contacted"] }
\* the data of an update_target call
Updates ==
    { [stage |-> s] : s \in {"replied", "lost", "closed", NoStage} }
        \cup { [campaign_stage |-> "qualified"], [unsubscribed |-> TRUE] }
\* the data of a record_touch call
TouchData == { [channel |-> "sms"], [subject |-> "hello"] }

\* a store written before the reference format: one inline target, with the
\* rollup update_metrics_count left for it
LegacyStore(stage) ==
    [ has_refs |-> FALSE, target_references |-> <<>>,
      has_targets |-> TRUE,
      targets |-> << NewTarget(1, [email |-> "ann@x.com", stage |-> stage]) >> ]

\* no campaign yet, or a campaign whose store is in the legacy format
InitCampaign ==
    /\ QueueInit /\ ReplyIdle /\ ClassifyIdle /\ StageIdle /\ ToolsIdle
    /\ prospects = (P1 :> Prospect(AnnLee, "ann@x.com", "identified"))
    /\ \/ /\ campaign_exists = FALSE
          /\ doc = DefaultTargetsV2
          /\ metrics = DefaultMetrics
          /\ nextTid = 0
       \/ \E stage \in {"identified", "contacted"} :
            /\ campaign_exists = TRUE
            /\ doc = LegacyStore(stage)
            /\ metrics = update_metrics_count(LegacyStore(stage), DefaultMetrics)
            /\ nextTid = 1

\* touches recorded so far for a target, in either format
TouchesOf(target_id) ==
    LET i == FindId(doc.target_references, target_id, 1)
        j == FindId(doc.targets, target_id, 1)
    IN IF i # 0 THEN doc.target_references[i].touch_count
       ELSE IF j # 0 THEN Len(doc.targets[j].touches)
       ELSE 0

CCreate == CreateCampaign
CAddTarget ==
    /\ nextTid < MaxTargets
    /\ \E target_data \in TargetData : AddTarget(target_data)
CAddTargetByProspect ==
    /\ nextTid < MaxTargets
    /\ \E prospect_slug \in Slugs : AddTargetByProspect(prospect_slug)
CUpdateTarget ==
    \E target_id \in TargetIds, updates \in Updates :
        UpdateTarget(target_id, updates)
CUpdateTargetStageSync ==
    \E target_id \in TargetIds, new_stage \in {"booked", NoStage} :
        UpdateTargetStageSync(target_id, new_stage)
CRecordTouch ==
    \E target_id \in TargetIds, touch_data \in TouchData :
        /\ TouchesOf(target_id) < MaxTouches
        /\ RecordTouch(target_id, touch_data)

NextCampaign ==
    \/ CCreate \/ CAddTarget \/ CAddTargetByProspect
    \/ CUpdateTarget \/ CUpdateTargetStageSync \/ CRecordTouch

SpecCampaign == InitCampaign /\ [][NextCampaign]_vars

----------------------------------------------------------------------------
(* The migration of a legacy campaign to prospect references *)

BobRay == << "B", "o", "b", " ", "R", "a", "y" >>
AnnSlug == << "a", "n", "n", "-", "l", "e", "e" >>
\* the data of the add_target calls that build the legacy store: a name
\* that collides with an existing prospect's, a missing email, a name
\* that is null
MigrateData ==
    { [name |-> AnnLee, email |-> "ann@x.com"],
      [name |-> AnnLee, email |-> "bob@x.com", stage |-> "contacted"],
      [name |-> BobRay],
      [name |-> NoName, email |-> "cat@x.com"] }

\* a legacy campaign without targets; the prospects folder is empty or
\* holds one prospect
InitMigrate ==
    /\ QueueInit /\ ReplyIdle /\ ClassifyIdle /\ StageIdle /\ ToolsIdle
    /\ campaign_exists = TRUE
    /\ doc = DefaultTargets
    /\ metrics = DefaultMetrics
    /\ nextTid = 0
    /\ \/ prospects = [s \in {} |-> ""]
       \/ prospects = (AnnSlug :> Prospect(AnnLee, "Ann@x.com", "identified"))

GAddTarget ==
    /\ nextTid < MaxTargets
    /\ \E target_data \in MigrateData : AddTarget(target_data)
GAddTargetByProspect ==
    /\ nextTid < MaxTargets
    /\ \E prospect_slug \in DOMAIN prospects : AddTargetByProspect(prospect_slug)
GRecordTouch ==
    \E target_id \in TargetIds :
        /\ TouchesOf(target_id) < MaxTouches
        /\ RecordTouch(target_id, [channel |-> "email"])
GUpdateTargetStageSync ==
    \E target_id \in TargetIds, new_stage \in {"booked"} :
        UpdateTargetStageSync(target_id, new_stage)
GMigrate == \E dry_run \in BOOLEAN : Migrate(dry_run)

NextMigrate ==
    \/ GAddTarget \/ GAddTargetByProspect \/ GRecordTouch
    \/ GUpdateTargetStageSync \/ GMigrate

SpecMigrate == InitMigrate /\ [][NextMigrate]_vars

----------------------------------------------------------------------------
(* Campaign folders *)

\* campaign names; the first two are one folder
CampaignNames ==
    { << "Q", "1", " ", "A" >>, << "q", "1", "-", "a" >>, << "b", "2" >> }
\* the overrides of a create call
CreateData ==
    { EmptyMap, [goal |-> "grow"],
      [audience |-> [is_mapping |-> TRUE]],
      [audience |-> [is_mapping |-> FALSE]] }

InitCreate ==
    /\ QueueInit /\ CampaignIdle /\ ReplyIdle /\ ClassifyIdle /\ StageIdle
    /\ MigrationIdle /\ CreateIdle /\ ProspectsIdle /\ LogIdle /\ LifeIdle
    /\ FrontmatterIdle /\ NotesIdle /\ ProcsIdle

FCreateStart ==
    \E name \in CampaignNames, data \in CreateData : CreateStart(name, data)
FAddTargetIn == \E name \in CampaignNames : AddTargetIn(name)

NextCreate == FCreateStart \/ CreateWrite \/ CreateInterrupted \/ FAddTargetIn

SpecCreate == InitCreate /\ [][NextCreate]_vars

----------------------------------------------------------------------------
(* The prospects folder *)

JohnSmith == << "J", "o", "h", "n", " ", "S", "m", "i", "t", "h" >>
JohnSlug == << "j", "o", "h", "n", "-", "s", "m", "i", "t", "h" >>
AnEmail == << "j", "@", "x", ".", "c", "o" >>
\* the data of the create calls: a name, the same name written another
\* way, a name that is the first name's slug with a suffix, a name without
\* any slug character, and data lacking the email
ProspectData ==
    { [name |-> JohnSmith, email |-> AnEmail],
      [name |-> << " ", "j", "o", "h", "n", " ", " ", "S", "M", "I", "T", "H", "!" >>,
       email |-> AnEmail],
      [name |-> JohnSmith \o << " ", "1" >>, email |-> AnEmail],
      [name |-> << "!", "?" >>, email |-> AnEmail],
      [name |-> AnnLee, email |-> AnEmail],
      [name |-> JohnSmith] }

InitProspects ==
    /\ QueueInit /\ CampaignIdle /\ ReplyIdle /\ ClassifyIdle /\ StageIdle
    /\ ToolsIdle

PCreateProspect ==
    /\ Len(created) < MaxProspects
    /\ \E data \in ProspectData : CreateProspect(data)

NextProspects == PCreateProspect

SpecProspects == InitProspects /\ [][NextProspects]_vars

----------------------------------------------------------------------------
(* The campaign log *)

\* the log create_campaign leaves: the CREATED event
CreatedLog == << [n |-> 0, type |-> "CREATED"] >>

\* a campaign that was just created, or no campaign
InitLog ==
    /\ QueueInit /\ ReplyIdle /\ ClassifyIdle /\ StageIdle
    /\ MigrationIdle /\ CreateIdle /\ ProspectsIdle /\ LifeIdle
    /\ FrontmatterIdle /\ NotesIdle /\ ProcsIdle
    /\ doc = DefaultTargetsV2 /\ metrics = DefaultMetrics
    /\ prospects = [s \in {} |-> ""] /\ nextTid = 0
    /\ logged = 0
    /\ \/ campaign_exists = TRUE /\ log = CreatedLog
       \/ campaign_exists = FALSE /\ log = <<>>

LLogEvent == logged < MaxLogEvents /\ LogEvent

NextLog == LLogEvent

SpecLog == InitLog /\ [][NextLog]_vars

----------------------------------------------------------------------------
(* A life file *)

\* the mappings appended to the arrays of records
Mappings ==
    { DictV([id |-> StrV("x"), v |-> IntV(1)]),
      DictV([id |-> StrV("x"), v |-> IntV(2)]),
      DictV([id |-> StrV("y"), v |-> IntV(1)]),
      DictV([v |-> IntV(1)]) }
\* the values appended to the array of tags
Scalars == { StrV("a"), StrV("b"), BoolV(TRUE) }
\* paths to an array of records, to an array of tags and to a string
RecordPaths == { << "items" >>, << "work", "items" >> }
TagPaths == { << "tags" >> }
LifePaths == RecordPaths \cup TagPaths \cup { << "name" >> }
\* the values of a remove call
RemoveValues ==
    { DictV([id |-> StrV("x")]), DictV([id |-> StrV("z")]), DictV([v |-> IntV(1)]),
      StrV("a"), StrV("c"), BoolV(FALSE), BoolV(TRUE), IntV(0), IntV(5), IntV(-1),
      None }

\* a file that holds a name and no array yet
InitLife ==
    /\ QueueInit /\ CampaignIdle /\ ReplyIdle /\ ClassifyIdle /\ StageIdle
    /\ MigrationIdle /\ CreateIdle /\ ProspectsIdle /\ LogIdle
    /\ FrontmatterIdle /\ NotesIdle /\ ProcsIdle
    /\ nextLid = 0 /\ appends = 0
    /\ life = [name |-> StrV("n")]

WAppend ==
    /\ appends < MaxAppends /\ nextLid < MaxAppends
    /\ \/ \E path \in RecordPaths \cup { << "name" >> }, value \in Mappings :
            LifeAppend(path, value)
       \/ \E path \in TagPaths, value \in Scalars \cup {None} :
            LifeAppend(path, value)
WRemove == \E path \in LifePaths, value \in RemoveValues : LifeRemove(path, value)
\* the values and the paths of a merge call; <<>> is a call without path
MergeValues ==
    { DictV([work |-> DictV([role |-> StrV("r")])]), DictV(EmptyDict),
      StrV("a"), IntV(1), ListV(<< StrV("a") >>), None }
WMerge ==
    \/ \E value \in MergeValues : LifeMerge(<<>>, value)
    \/ LifeMerge(<< "work" >>, DictV([role |-> StrV("s")]))

NextLife == WAppend \/ WRemove \/ WMerge

SpecLife == InitLife /\ [][NextLife]_vars

----------------------------------------------------------------------------
(* The frontmatter round trip *)

\* markdown bodies: empty, plain, beginning with a newline as the bodies
\* create_campaign writes do, beginning with blanks, holding a "---" line
Markdowns ==
    { <<>>,
      << "#", " ", "T", "\n" >>,
      << "\n", "#", " ", "T", "\n" >>,
      << " ", " ", "x" >>,
      << "a", "\n", "-", "-", "-", "\n", "b" >>,
      << "\t" >>,
      << "x", "\n" >>,
      << "\n" >> }

FrontDocs == { JsonTexts[i].data : i \in 1..Len(JsonTexts) }

\* any of the documents with any of the markdown bodies
InitFrontmatter ==
    /\ QueueInit /\ CampaignIdle /\ ReplyIdle /\ ClassifyIdle /\ StageIdle
    /\ MigrationIdle /\ CreateIdle /\ ProspectsIdle /\ LogIdle /\ LifeIdle
    /\ NotesIdle /\ ProcsIdle
    /\ \E data \in FrontDocs, markdown \in Markdowns :
        frontmatter = [ NoFrontmatter EXCEPT !.stage = "given", !.data = data,
                                             !.markdown = markdown ]

NextFrontmatter == Serialize \/ Parse

SpecFrontmatter == InitFrontmatter /\ [][NextFrontmatter]_vars

----------------------------------------------------------------------------
(* Updates of one prospect file *)

MaxNotes == 2            \* interaction_history_append texts given

\* the texts given to the sections: plain words, and a note with a
\* heading line of its own
NoteTexts ==
    { << "a" >>, << "b" >>,
      << "x", "\n", "#", "#", " ", "N", "\n", "y" >> }
NoteUpdates ==
    { [ interaction_history_append |-> t ] : t \in NoteTexts }
      \cup { [ stage |-> "contacted" ],
             [ research_notes |-> << "r" >> ],
             [ personalization_hooks |-> << "h" >> ],
             [ business_context |-> << "c" >>, stage |-> "replied" ] }

\* one prospect file as create_prospect writes it, with the three
\* sections given or left empty, and an empty history
InitNotes ==
    /\ QueueInit /\ ReplyIdle /\ ClassifyIdle /\ StageIdle
    /\ MigrationIdle /\ CreateIdle /\ ProspectsIdle /\ LogIdle /\ LifeIdle
    /\ FrontmatterIdle /\ ProcsIdle
    /\ campaign_exists = FALSE /\ doc = DefaultTargetsV2
    /\ metrics = DefaultMetrics /\ nextTid = 0
    /\ prospects = (P1 :> Prospect(AnnLee, "ann@x.com", "identified"))
    /\ appended = <<>>
    /\ \E given \in { NoSections,
                      [ k \in 1..4 |-> IF k = 4 THEN <<>> ELSE << "g" >> ] } :
        body = (P1 :> build_markdown_body(given))

NUpdateProspect ==
    \E updates \in NoteUpdates :
        /\ "interaction_history_append" \in DOMAIN updates => Len(appended) < MaxNotes
        /\ UpdateProspect(P1, updates)

NextNotes == NUpdateProspect

SpecNotes == InitNotes /\ [][NextNotes]_vars

----------------------------------------------------------------------------
(* Approvals on a history that is nearly full *)

MaxCapActions == 2       \* queue_action calls beyond a full history

\* the history after n actions were queued, approved one by one and sent:
\* the entry of the latest approval first
FilledHistory(n) == [ j \in 1..n |-> [ id |-> n + 1 - j, status |-> "executed" ] ]

InitHistory ==
    /\ CampaignIdle /\ ReplyIdle /\ ClassifyIdle /\ StageIdle /\ ToolsIdle
    /\ now = 0 /\ ticks = 0 /\ sentOk = {} /\ last = NoLast
    /\ pending = <<>>
    /\ \E n \in {HistoryCap - 2, HistoryCap - 1, HistoryCap} :
        /\ history = FilledHistory(n)
        /\ nextId = n

HQueueAction ==
    /\ nextId < HistoryCap + MaxCapActions
    /\ QueueAction("c1", << "send_email", "email" >>)
HApprove ==
    \/ \E ids \in SUBSET PendingIds : Approve(ids, FALSE, NoCampaign)
    \/ Approve({}, TRUE, NoCampaign)

NextHistory == HQueueAction \/ HApprove

SpecHistory == InitHistory /\ [][NextHistory]_vars

----------------------------------------------------------------------------
(* Two invocations on the queue file *)

\* the queue file at the start: empty, or holding action 1 approved (with
\* its history entry) or still pending
QueuedBefore(status) ==
    << [ NewAction(1, "c1", << "send_email", "email" >>, 0) EXCEPT !.status = status ] >>

InitRace ==
    /\ CampaignIdle /\ ReplyIdle /\ ClassifyIdle /\ StageIdle /\ ToolsIdle
    /\ now = 0 /\ ticks = 0 /\ sentOk = {} /\ last = NoLast
    /\ \/ pending = <<>> /\ history = <<>> /\ nextId = 0
       \/ /\ pending = QueuedBefore("pending") /\ history = <<>> /\ nextId = 1
       \/ /\ pending = QueuedBefore("approved")
          /\ history = << HistoryEntry(QueuedBefore("pending")[1]) >>
          /\ nextId = 1

ZLoadForQueue == \E p \in Procs, kind \in ActionKinds : LoadForQueue(p, kind)
ZLoadForExecute ==
    \E p \in Procs, outcome \in {"success", "failed"} : LoadForExecute(p, outcome)
ZSaveLoaded == \E p \in Procs : SaveLoaded(p)

NextRace == ZLoadForQueue \/ ZLoadForExecute \/ ZSaveLoaded

SpecRace == InitRace /\ [][NextRace]_vars

----------------------------------------------------------------------------
(* Reply processing on a legacy store *)

\* what one Gmail search may return: up to MaxBatch emails
Emails == [ id : MsgIds, from : {"Ann@x.com", "bob@x.com", "eve@y.com"},
            body : ReplyTexts ]
Batches == UNION { [1..n -> Emails] : n \in 0..MaxBatch }

\* a campaign with two inline targets, each at any stage
ReplyStore(stage1, stage2) ==
    [ has_refs |-> FALSE, target_references |-> <<>>,
      has_targets |-> TRUE,
      targets |-> << NewTarget(1, [email |-> "ann@x.com", stage |-> stage1]),
                     NewTarget(2, [email |-> "bob@x.com", stage |-> stage2]) >> ]

InitReplies ==
    /\ QueueInit /\ ReplyIdle /\ ClassifyIdle /\ StageIdle /\ ToolsIdle
    /\ prospects = [s \in {} |-> ""]
    /\ campaign_exists = TRUE
    /\ nextTid = 2
    /\ \E stage1 \in Stages, stage2 \in {"identified", "contacted"} :
         /\ doc = ReplyStore(stage1, stage2)
         /\ metrics = update_metrics_count(ReplyStore(stage1, stage2), DefaultMetrics)

RProcessReplies ==
    \E emails \in Batches, dry_run \in BOOLEAN : ProcessReplies(emails, dry_run)

NextReplies == RProcessReplies

SpecReplies == InitReplies /\ [][NextReplies]_vars

----------------------------------------------------------------------------
(* The classifier on its own *)

\* the texts made of 1..MaxFragments fragments
ClassifyTexts ==
    { Flatten([i \in DOMAIN f |-> Fragments[f[i]]], 1) :
        f \in UNION { [1..n -> 1..Len(Fragments)] : n \in 1..MaxFragments } }

InitClassify ==
    /\ QueueInit /\ CampaignIdle /\ ReplyIdle /\ StageIdle /\ ToolsIdle
    /\ content \in ClassifyTexts
    /\ analysis = NoAnalysis

NextClassify == Analyze

SpecClassify == InitClassify /\ [][NextClassify]_vars

----------------------------------------------------------------------------
(* The stage application decision on its own *)

InitStage ==
    /\ QueueInit /\ CampaignIdle /\ ReplyIdle /\ ClassifyIdle /\ ToolsIdle
    /\ current_stage \in Stages \cup {NoStage}
    /\ suggested_stage \in Stages
    /\ stage_decision = "undecided"

NextStage == DecideStage

SpecStage == InitStage /\ [][NextStage]_vars

----------------------------------------------------------------------------
(* Properties of the approval queue *)

IdsOf(p) == { p[i].id : i \in 1..Len(p) }
Get(p, id) == p[CHOOSE i \in 1..Len(p) : p[i].id = id]
StatusIn(p, id) == IF id \in IdsOf(p) THEN Get(p, id).status ELSE "absent"

\* the step is one invocation of execute_approved_actions / approve_actions /
\* queue_action (the clock does not move in it)
ExecuteStep == last'.op = "execute" /\ ticks' = ticks
ApproveStep == last'.op = "approve" /\ ticks' = ticks
QueueStep == last'.op = "queue_action" /\ ticks' = ticks

\* a non-dry-run execute of the queue as it stands, called with action_ids
\* ids while the senders answer oc
Run(ids, oc) == ExecuteBatch(pending, history, ids, FALSE, oc, now)

\* C1: in every reachable queue, whatever action_ids an execute is given and
\* whatever the senders answer, each action for which an external sender is
\* run has status approved in the queue the call loads; an action whose
\* status is pending is never handed to a sender.
C1_OnlyApprovedDispatched ==
    \A ids \in SUBSET IdPool : \A oc \in SenderAnswers(ids) :
        LET r == Run(ids, oc)
        IN /\ \A k \in 1..Len(r.results) :
                r.results[k].sender =>
                    StatusIn(pending, r.results[k].action_id) = "approved"
           /\ \A id \in IdsOf(pending) :
                Get(pending, id).status = "pending" =>
                    /\ id \notin sentOk
                    /\ \A k \in 1..Len(r.results) : r.results[k].action_id # id

\* an execute has run a sender with success for one action while another
\* action of the queue is still pending
C1_Witness ==
    /\ last.op = "execute"
    /\ sentOk # {}
    /\ \E i \in 1..Len(pending) : pending[i].status = "pending"

\* C2: whatever action_ids a non-dry-run execute is given, an action whose
\* result is a failure (non-success answer, timeout, or a type with no
\* sender) is still in the pending array afterwards with status approved, its
\* last_error set and its last_attempt the time of the call, and the next
\* execute of all approved actions handles it again; no step removes an
\* approved action from the array except an execute whose sender succeeded
\* for it.
C2_FailureKeepsApproved ==
    /\ [](\A ids \in SUBSET IdPool : \A oc \in SenderAnswers(ids) :
            LET r == Run(ids, oc)
            IN \A k \in 1..Len(r.results) :
                 r.results[k].status # "success" =>
                    LET id == r.results[k].action_id
                        again == ExecuteBatch(r.pending, r.history, {}, FALSE,
                                              [i \in IdsOf(r.pending) |-> "success"], now)
                    IN /\ id \in IdsOf(r.pending)
                       /\ Get(r.pending, id).status = "approved"
                       /\ Get(r.pending, id).last_error # NoError
                       /\ Get(r.pending, id).last_attempt = now
                       /\ \E m \in 1..Len(again.results) :
                             again.results[m].action_id = id)
    /\ [][ \A id \in IdsOf(pending) :
              (Get(pending, id).status = "approved" /\ id \notin IdsOf(pending'))
                  => (ExecuteStep /\ id \in sentOk' \ sentOk) ]_vars

\* an execute left behind an approved action whose sender timed out, next to
\* an approved action of a type that has no sender, both with the error kept
C2_Witness ==
    /\ last.op = "execute"
    /\ \E i, j \in 1..Len(pending) :
          /\ pending[i].status = "approved"
          /\ pending[i].last_error = "Timeout sending email"
          /\ pending[i].last_attempt = now
          /\ pending[j].status = "approved"
          /\ pending[j].last_error = "Unknown action type"

\* C3: whatever action_ids a non-dry-run execute is given, an action whose
\* result is a success was approved, is absent from the pending array the call
\* saves, and every history entry with its id has status executed; no element
\* of the stored pending array ever has status executed.
C3_SuccessLeavesQueue ==
    /\ \A ids \in SUBSET IdPool : \A oc \in SenderAnswers(ids) :
          LET r == Run(ids, oc)
          IN \A k \in 1..Len(r.results) :
               r.results[k].status = "success" =>
                  LET id == r.results[k].action_id
                  IN /\ id \notin IdsOf(r.pending)
                     /\ StatusIn(pending, id) = "approved"
                     /\ \E j \in 1..Len(r.history) : r.history[j].id = id
                     /\ \A j \in 1..Len(r.history) :
                           r.history[j].id = id => r.history[j].status = "executed"
    /\ \A i \in 1..Len(pending) : pending[i].status # "executed"
    /\ \A id \in sentOk :
          /\ id \notin IdsOf(pending)
          /\ \A j \in 1..Len(history) :
                history[j].id = id => history[j].status = "executed"

\* an execute succeeded for one action, which left the queue and whose history
\* entry says executed, while another action stays in the queue
C3_Witness ==
    /\ last.op = "execute"
    /\ \E id \in sentOk :
          /\ id \notin IdsOf(pending)
          /\ \E j \in 1..Len(history) :
                history[j].id = id /\ history[j].status = "executed"
    /\ pending # <<>>

\* C4: an action enters the array only by queue_action, with status pending;
\* while it is in the array its status stays or goes from pending to approved,
\* and that only in an approve; it leaves the array (executed) only from
\* status approved and only in an execute whose sender succeeded for it; a
\* history entry's status stays or goes from approved to executed, the latter
\* only in an execute.
C4_StatusOrder ==
    [][ /\ \A id \in IdsOf(pending') \ IdsOf(pending) :
              /\ QueueStep
              /\ id = nextId'
              /\ id > nextId
              /\ Get(pending', id).status = "pending"
        /\ \A id \in IdsOf(pending) \cap IdsOf(pending') :
              \/ Get(pending', id).status = Get(pending, id).status
              \/ /\ Get(pending, id).status = "pending"
                 /\ Get(pending', id).status = "approved"
                 /\ ApproveStep
        /\ \A id \in IdsOf(pending) \ IdsOf(pending') :
              /\ Get(pending, id).status = "approved"
              /\ ExecuteStep
              /\ id \in sentOk' \ sentOk
        /\ \A j \in 1..Len(history) :
              \E k \in 1..Len(history') :
                  /\ history'[k].id = history[j].id
                  /\ \/ history'[k].status = history[j].status
                     \/ /\ history[j].status = "approved"
                        /\ history'[k].status = "executed"
                        /\ ExecuteStep ]_vars

\* one action has gone through pending, approved and executed while a second
\* one, queued later, has been approved
C4_Witness ==
    /\ \E j \in 1..Len(history) : history[j].status = "executed"
    /\ \E i \in 1..Len(pending) : pending[i].status = "approved"
    /\ sentOk # {}

\* the action matches the selection of an approve call: its id is in
\* action_ids, or approve_all is set and the campaign filter, if given, equals
\* its campaign_id
Selected(a, ids, all, c) ==
    \/ a.id \in ids
    \/ all /\ (c = NoCampaign \/ a.campaign_id = c)

\* C5: whatever arguments an approve call is given, it changes the status of
\* an action only if the action is pending, its expires_at is strictly later
\* than the time of the call and it matches the selection, and the new status
\* is approved; a live pending action named in action_ids (approve_all not
\* set) or covered by approve_all and its filter is approved; an action that
\* is pending when its expiry has passed stays in the array, pending, in every
\* later step, so it is never approved and never reaches a sender.
C5_ApproveOnlyLivePending ==
    /\ [](\A ids \in SUBSET ExpiryIds, all \in BOOLEAN,
             c \in Campaigns \cup {NoCampaign} :
            (ids # {} \/ all) =>
                LET r == ApproveBatch(pending, history, ids, all, c, now)
                IN /\ Len(r.pending) = Len(pending)
                   /\ \A i \in 1..Len(pending) :
                        /\ r.pending[i].id = pending[i].id
                        /\ (pending[i].status # r.pending[i].status)
                              => /\ pending[i].status = "pending"
                                 /\ r.pending[i].status = "approved"
                                 /\ pending[i].expires_at > now
                                 /\ Selected(pending[i], ids, all, c)
                        /\ ( /\ pending[i].status = "pending"
                             /\ pending[i].expires_at > now
                             /\ \/ ~all /\ pending[i].id \in ids
                                \/ all /\ (c = NoCampaign \/ pending[i].campaign_id = c) )
                              => r.pending[i].status = "approved")
    /\ [][ \A id \in IdsOf(pending) :
              (Get(pending, id).status = "pending" /\ Get(pending, id).expires_at <= now)
                  => /\ StatusIn(pending', id) = "pending"
                     /\ id \notin sentOk' ]_vars

\* an approve ran at the very second an action expired: that action is still
\* pending while another of the same campaign, not yet expired, is approved
C5_Witness ==
    /\ last.op = "approve"
    /\ \E i, j \in 1..Len(pending) :
          /\ pending[i].status = "pending"
          /\ pending[i].expires_at = now
          /\ pending[j].status = "approved"
          /\ pending[j].expires_at > now
          /\ pending[j].campaign_id = pending[i].campaign_id

\* C6: whatever campaign filter and include_expired flag list_pending is
\* given, it returns exactly the actions of the array whose status is pending,
\* whose campaign_id equals the filter when one is given, and whose expires_at
\* is later than now unless include_expired is set, each once and in the order
\* of the array; an action one second past its expiry is left out by default
\* and returned with include_expired.
C6_ListPendingExact ==
    \A c \in Campaigns \cup {NoCampaign}, inc \in BOOLEAN :
        LET out == ListOutput(pending, c, inc, now)
        IN /\ SeqToSet(out) =
                { a.id : a \in
                    { b \in SeqToSet(pending) :
                        /\ b.status = "pending"
                        /\ (c # NoCampaign => b.campaign_id = c)
                        /\ (inc \/ b.expires_at > now) } }
           /\ \A m, n \in 1..Len(out) : m < n => out[m] < out[n]
           /\ \A a \in SeqToSet(pending) :
                (a.status = "pending" /\ a.expires_at = now - 1) =>
                    /\ a.id \notin SeqToSet(ListOutput(pending, NoCampaign, FALSE, now))
                    /\ a.id \in SeqToSet(ListOutput(pending, NoCampaign, TRUE, now))

\* list_pending ran on a queue holding a pending action that expired one
\* second ago, a pending action that is still live and so is listed
C6_Witness ==
    /\ last.op = "list_pending"
    /\ \E i, j \in 1..Len(pending) :
          /\ pending[i].status = "pending"
          /\ pending[i].expires_at = now - 1
          /\ pending[j].status = "pending"
          /\ pending[j].expires_at > now
          /\ ListOutput(pending, NoCampaign, FALSE, now) = <<pending[j].id>>

----------------------------------------------------------------------------
(* Reply processing and the classifier *)

\* a comes before b in the canonical stage list
Before(a, b) ==
    \E i, j \in 1..Len(stages) : i < j /\ stages[i] = a /\ stages[j] = b

\* C7: whatever batch of at most MaxBatch emails one non-dry-run of
\* process_campaign_replies handles, every stage it writes to a target is
\* lost or comes strictly later in the stage list than the stage the target
\* held in the targets document immediately before that write.
C7_NeverRegresses ==
    \A k \in 1..Len(stage_writes) :
        \/ stage_writes[k].stage = "lost"
        \/ Before(stage_writes[k].before, stage_writes[k].stage)

\* C8: for every pair (current stage, suggested stage) of the stage list the
\* suggestion is applied exactly if it is lost or comes strictly later in the
\* list than the current stage; from contacted, identified is rejected and
\* qualified is applied, and lost is applied from every stage.
C8_StageDecision ==
    (stage_decision # "undecided" /\ current_stage \in Stages) =>
        /\ stage_decision = "applied" <=>
              (suggested_stage = "lost" \/ Before(current_stage, suggested_stage))
        /\ (current_stage = "contacted" /\ suggested_stage = "identified")
              => stage_decision = "rejected"
        /\ (current_stage = "contacted" /\ suggested_stage = "qualified")
              => stage_decision = "applied"
        /\ suggested_stage = "lost" => stage_decision = "applied"

\* the decision was made for contacted / contacted: an equal index is rejected
C8_Witness ==
    /\ stage_decision = "rejected"
    /\ current_stage = "contacted"
    /\ suggested_stage = "contacted"

\* "Not interested, please unsubscribe"
NotInterestedUnsubscribe == Fragments[1] \o Fragments[2]

\* number of keywords of category i found in a lower-cased text
KeywordCount(i, lowered) ==
    Cardinality({ k \in 1..Len(INTENT_PATTERNS[i].patterns) :
                    Contains(INTENT_PATTERNS[i].patterns[k], lowered) })

RECURSIVE KeywordCountsFrom(_, _)
KeywordCountsFrom(lowered, i) ==
    IF i > Len(INTENT_PATTERNS) THEN <<>>
    ELSE <<KeywordCount(i, lowered)>> \o KeywordCountsFrom(lowered, i + 1)

\* the keyword count of every category for the text at hand, letter case
\* ignored
KeywordCounts == KeywordCountsFrom(Lower(content), 1)

\* analyze_reply picked the earliest-declared category among those with the
\* highest keyword count, or unknown when no keyword is found
PicksEarliestBest ==
    LET count == KeywordCounts
        n == Len(count)
        best == CHOOSE i \in 1..n :
                   /\ \A j \in 1..n : count[j] <= count[i]
                   /\ \A j \in 1..(i - 1) : count[j] < count[i]
    IN IF count[best] = 0
       THEN analysis.intent = "unknown"
       ELSE analysis.intent = INTENT_PATTERNS[best].intent

\* C9 as stated: analyze_reply picks the earliest-declared category among
\* those with the highest keyword count and, for "Not interested, please
\* unsubscribe", returns not_interested / lost / close_target.
C9_AsStated ==
    analysis # NoAnalysis =>
        /\ PicksEarliestBest
        /\ content = NotInterestedUnsubscribe =>
              /\ analysis.intent = "not_interested"
              /\ analysis.suggested_stage = "lost"
              /\ analysis.suggested_action = "close_target"

\* C9, amended: analyze_reply picks the earliest-declared category among
\* those with the highest keyword count (case-insensitive substring match, a
\* later category overtaking only on a strictly greater count); for "Not
\* interested, please unsubscribe" the keyword "interested" is found inside
\* "not interested", so interested, not_interested and unsubscribe tie at one
\* keyword each and it returns intent interested, suggested_stage replied and
\* suggested_action follow_up_with_details.
C9_EarliestBestCategory ==
    analysis # NoAnalysis =>
        /\ PicksEarliestBest
        /\ content = NotInterestedUnsubscribe =>
              /\ KeywordCounts = <<1, 0, 1, 1, 0, 0>>
              /\ analysis.intent = "interested"
              /\ analysis.suggested_stage = "replied"
              /\ analysis.suggested_action = "follow_up_with_details"

\* "Not interested, please unsubscribe" has been classified
C9_Witness ==
    /\ analysis # NoAnalysis
    /\ content = NotInterestedUnsubscribe
    /\ Len(analysis.keywords_matched) = 3

----------------------------------------------------------------------------
(* The metrics rollup *)

\* the stages of everything stored in the targets document
StoredStages ==
    [i \in 1..Len(doc.targets) |-> doc.targets[i].stage]
        \o [i \in 1..Len(doc.target_references) |->
                doc.target_references[i].campaign_stage]

\* how many times each stage occurs in a sequence of stages
Histogram(ss) ==
    [s \in SeqToSet(ss) |-> Cardinality({ i \in 1..Len(ss) : ss[i] = s })]

TargetOps ==
    { "add_target", "add_target_by_prospect", "update_target",
      "update_target_stage_sync", "record_touch" }

\* C10: after every successful add_target, add_target_by_prospect,
\* update_target, update_target_stage_sync and record_touch,
\* summary.total_targets is the number of targets and target references
\* stored in the targets document and summary.by_stage is the histogram of
\* their stages.
C10_SummaryDerived ==
    (last.op \in TargetOps /\ last.status = "success") =>
        /\ metrics.total_targets = Len(StoredStages)
        /\ metrics.by_stage = Histogram(StoredStages)

----------------------------------------------------------------------------
(* Targets, references and the migration *)

\* the ids a targets document holds, as targets or as references
TargetIdsIn(d) ==
    { d.targets[i].id : i \in 1..Len(d.targets) }
        \cup { d.target_references[i].id : i \in 1..Len(d.target_references) }

\* C11: no operation on targets, and no migration run, removes a target id
\* from the targets document: every id the document held before a step is
\* still in it, as a target or as a reference, after the step.
C11_NeverDeleted == [][TargetIdsIn(doc) \subseteq TargetIdsIn(doc')]_vars

\* the indices of the inline targets with, and without, an email
WithEmail(d) == { i \in 1..Len(d.targets) : d.targets[i].email # "" }
WithoutEmail(d) == { i \in 1..Len(d.targets) : d.targets[i].email = "" }

\* the errors of the given kind, in the order reported
ErrorsOf(report, kind) == SelectSeq(report.errors, LAMBDA e : e.kind = kind)

\* the names of the inline targets without an email, in document order
RECURSIVE NamesWithoutEmail(_, _)
NamesWithoutEmail(targets, i) ==
    IF i > Len(targets) THEN <<>>
    ELSE (IF targets[i].email = "" THEN << targets[i].name >> ELSE <<>>)
            \o NamesWithoutEmail(targets, i + 1)

\* a run of the migration that reaches the loop over the inline targets
LoopRuns(d) == ~(d.has_refs /\ ~d.has_targets) /\ d.targets # <<>>

\* the report of a run on the store at hand
ReportOf(dry_run) == migrate_campaign(campaign_exists, doc, prospects, dry_run).report

\* every target without an email is skipped with one error naming it
SkipsNoEmail(report) ==
    LET errs == ErrorsOf(report, "no_email")
    IN /\ Len(errs) = Cardinality(WithoutEmail(doc))
       /\ \A k \in 1..Len(errs) :
            errs[k].name = NamesWithoutEmail(doc.targets, 1)[k]

\* C12 as the specification states it: whatever the store, a run reports
\* every target without an email as skipped with an error naming it, counts
\* every target with an email as migrated, and migrated + skipped is the
\* number of inline targets.
C12_AsStated ==
    \A dry_run \in BOOLEAN :
        LoopRuns(doc) =>
            LET report == ReportOf(dry_run)
            IN /\ SkipsNoEmail(report)
               /\ report.migrated = Cardinality(WithEmail(doc))
               /\ report.migrated + report.skipped = Len(doc.targets)

\* C12: a run reports every target without an email as skipped with an
\* error naming it; a target with an email is counted as migrated unless
\* migrating it raises, and then it is skipped with one "Failed to migrate"
\* error naming it; migrated + skipped is the number of inline targets.
C12_MigrationAccounting ==
    \A dry_run \in BOOLEAN :
        LoopRuns(doc) =>
            LET report == ReportOf(dry_run)
                failed == ErrorsOf(report, "failed")
            IN /\ SkipsNoEmail(report)
               /\ report.migrated = Cardinality(WithEmail(doc)) - Len(failed)
               /\ \A k \in 1..Len(failed) :
                    \E i \in WithEmail(doc) : doc.targets[i].name = failed[k].name
               /\ Len(report.errors) = report.skipped
               /\ report.migrated + report.skipped = Len(doc.targets)

\* a run on a legacy campaign whose one target lacks an email has reported
\* migrated=0, skipped=1 and the error naming the target
C12_Witness ==
    /\ last.op = "migrate"
    /\ Len(doc.targets) = 1 /\ doc.targets[1].email = ""
    /\ migration.migrated = 0 /\ migration.skipped = 1
    /\ migration.errors = << [kind |-> "no_email", name |-> doc.targets[1].name] >>

\* C13: on a document with target_references and no targets key a run
\* reports migrated=0 and writes nothing; and a second run right after a
\* first leaves the targets document and the prospects folder as the first
\* left them.
C13_MigrationIdempotent ==
    LET first == migrate_campaign(campaign_exists, doc, prospects, FALSE)
        second == migrate_campaign(campaign_exists, first.doc, first.prospects, FALSE)
    IN /\ (doc.has_refs /\ ~doc.has_targets) =>
            /\ first.report.migrated = 0
            /\ first.doc = doc /\ first.prospects = prospects
       /\ second.doc = first.doc
       /\ second.prospects = first.prospects

\* a second run, on the references a first run wrote, has reported
\* "already migrated"
C13_Witness ==
    /\ last.op = "migrate"
    /\ migration.run = "already migrated"
    /\ doc.target_references # <<>>
    /\ \E slug \in DOMAIN prospects : prospects[slug].email = "bob@x.com"

----------------------------------------------------------------------------
(* Campaign folders *)

\* C15: while no create is running, and so also after a create that was
\* interrupted or failed, every campaign folder holds all five documents
\* or none of them; and a create on a name whose folder exists fails and
\* changes nothing.
C15_NeverPartial ==
    /\ [](creating = NoCreate =>
            \A path \in DOMAIN folders :
                folders[path] \in { {}, SeqToSet(CampaignDocs) })
    /\ [][\A name \in CampaignNames :
            (sanitize_name(name) \in DOMAIN folders /\ creating = NoCreate
                /\ last'.op = "create" /\ creating' = NoCreate)
            => (last'.status = "error" /\ folders' = folders)]_vars

----------------------------------------------------------------------------
(* The prospects folder *)

\* base_slug followed by "-" and the decimal digits of k
Suffixed(base_slug, k) == base_slug \o << "-" >> \o Decimal(k)

\* C16: a create that succeeds returns the kebab-cased name when no file
\* has that slug, and otherwise that base with the smallest suffix -1, -2,
\* ... for which no file exists; it writes no file that existed before; so
\* the slugs returned so far are pairwise different and every prospect
\* created still has its own file.
C16_SlugsUnique ==
    /\ [](\A i, j \in 1..Len(created) :
            /\ created[i].slug \in DOMAIN prospects
            /\ prospects[created[i].slug].name = created[i].name
            /\ (i # j => created[i].slug # created[j].slug))
    /\ [][(last'.op = "create_prospect" /\ last'.status = "success"
            /\ Len(created') = Len(created) + 1) =>
            LET new == created'[Len(created')]
                base_slug == generate_slug(new.name)
            IN /\ new.slug \notin DOMAIN prospects
               /\ \A s \in DOMAIN prospects : prospects'[s] = prospects[s]
               /\ IF base_slug \notin DOMAIN prospects
                  THEN new.slug = base_slug
                  ELSE \E k \in 1..(Len(created) + 1) :
                         /\ new.slug = Suffixed(base_slug, k)
                         /\ \A j \in 1..(k - 1) :
                              Suffixed(base_slug, j) \in DOMAIN prospects]_vars

\* "John Smith" was created twice and then once more: the slugs are
\* john-smith, john-smith-1 and john-smith-2
C16_Witness ==
    /\ Len(created) = 3
    /\ \A i \in 1..3 : created[i].name = JohnSmith
    /\ created[1].slug = JohnSlug
    /\ created[2].slug = JohnSlug \o << "-", "1" >>
    /\ created[3].slug = JohnSlug \o << "-", "2" >>

----------------------------------------------------------------------------
(* The campaign log *)

\* C17: the log never holds more than 1000 events and holds them newest
\* first; a log_event call puts the new event at index 0 and keeps the
\* events it retains in the order they had, dropping from the old end
\* only; once 1001 events were inserted the log holds exactly 1000 with
\* the 1001st at index 0.
C17_LogCapped ==
    /\ [](/\ Len(log) <= LogCap
          /\ \A i \in 1..(Len(log) - 1) : log[i].n > log[i + 1].n
          /\ logged = LogCap + 1 => (Len(log) = LogCap /\ log[1].n = logged))
    /\ [][logged' = logged + 1 =>
            /\ log'[1].n = logged'
            /\ Len(log') = IF Len(log) < LogCap THEN Len(log) + 1 ELSE LogCap
            /\ SubSeq(log', 2, Len(log')) = SubSeq(log, 1, Len(log') - 1)]_vars

\* 1001 events were inserted: the log holds 1000, the 1001st first and
\* the second last
C17_Witness ==
    /\ logged = LogCap + 1
    /\ Len(log) = LogCap
    /\ log[1].n = LogCap + 1
    /\ log[LogCap].n = 2

----------------------------------------------------------------------------
(* A life file *)

\* the value at a path below the mapping fields, None when there is none
RECURSIVE ValueAt(_, _)
ValueAt(fields, keys) ==
    IF Head(keys) \notin DOMAIN fields THEN None
    ELSE IF Len(keys) = 1 THEN fields[Head(keys)]
    ELSE IF fields[Head(keys)].kind # "dict" THEN None
    ELSE ValueAt(fields[Head(keys)].fields, Tail(keys))

\* the elements of the array at a path, <<>> when it does not exist yet
ItemsAt(fields, keys) ==
    IF ValueAt(fields, keys).kind = "list" THEN ValueAt(fields, keys).items
    ELSE <<>>

\* the positions of the array holding a mapping with the given id
WithSameId(items, id) ==
    { i \in 1..Len(items) : items[i].kind = "dict" /\ ItemId(items[i]) = id }

EqualsAnElement(items, value) == \E i \in 1..Len(items) : items[i] = value

\* C20: when the path resolves to an array and the value is not an integer
\* and equals no element, or is a mapping whose id no element has, remove
\* succeeds and leaves the elements of the array and their order as they
\* were.
C20_RemoveAbsentNoOp ==
    \A path \in LifePaths, value \in RemoveValues \ {None} :
        LET items == ItemsAt(life, path)
            r == remove_from_array(life, path, value)
            absent == IF HasId(value)
                      THEN WithSameId(items, value.fields.id) = {}
                      ELSE value.kind # "int" /\ ~EqualsAnElement(items, value)
        IN (ValueAt(life, path).kind = "list" /\ absent) =>
                (r.ok /\ ItemsAt(r.fields, path) = items)

----------------------------------------------------------------------------
(* The frontmatter round trip *)

\* C19: whatever the mapping and the markdown text, an empty text and a
\* text beginning with a newline or other whitespace included, parsing what
\* serialize wrote returns exactly that mapping and that markdown.
C19_RoundTrip ==
    frontmatter.stage = "parsed" =>
        /\ frontmatter.parsed.data = frontmatter.data
        /\ frontmatter.parsed.markdown = frontmatter.markdown

----------------------------------------------------------------------------
(* Removal by index *)

\* C21: when the path resolves to an array and the value is an integer that
\* is negative or not below the length of the array, remove fails: the call
\* returns an error and the stored document is left as it was; it is never
\* a call that succeeds and changes nothing.
C21_IndexOutOfRangeFails ==
    \A path \in LifePaths, value \in { v \in RemoveValues : v.kind = "int" } :
        LET items == ItemsAt(life, path)
            r == remove_from_array(life, path, value)
        IN (/\ ValueAt(life, path).kind = "list"
            /\ (IntOf(value) < 0 \/ IntOf(value) >= Len(items))) => ~r.ok

----------------------------------------------------------------------------
(* Merge of a value that is no mapping *)

\* C22: a merge call without path whose value is not a mapping (a scalar,
\* a list or null) is an error: it returns an error result and leaves the
\* stored document as it was.
C22_MergeNonMappingFails ==
    [][\A value \in { v \in MergeValues : v.kind # "dict" } :
          LifeMerge(<<>>, value) => (last'.status = "error" /\ life' = life)]_vars

----------------------------------------------------------------------------
(* The interaction history of a prospect *)

\* the Interaction History section update_prospect reads from a body
HistoryOf(markdown) == parse_body_sections(ReadBody(markdown))[4]

\* the parts occur in the text one after the other, from position i on
RECURSIVE ContainsInOrder(_, _, _)
ContainsInOrder(text, parts, i) ==
    IF parts = <<>> THEN TRUE
    ELSE LET at == { k \in i..(Len(text) - Len(Head(parts)) + 1) :
                        StartsAt(text, k, Head(parts)) }
         IN /\ at # {}
            /\ ContainsInOrder(text, Tail(parts), Min(at) + Len(Head(parts)))

\* C23: the Interaction History section is append-only.  An update with
\* interaction_history_append leaves the section holding the text it held,
\* a blank line and the new text (the new text alone when it was empty);
\* an update of frontmatter fields or of the other three sections leaves
\* the section as it was; and the section always holds every text
\* appended so far, in the order given.
C23_HistoryAppendOnly ==
    /\ [](ContainsInOrder(HistoryOf(body[P1]), appended, 1))
    /\ [][LET before == HistoryOf(body[P1])
              after == HistoryOf(body'[P1])
          IN IF appended' # appended
             THEN after = AppendHistory(before, appended'[Len(appended')])
             ELSE after = before]_vars

----------------------------------------------------------------------------
(* The stage values stored *)

\* C24: the stage of every legacy target, the campaign_stage of every
\* reference and the stage of every prospect is one of the eight stage
\* values, whatever the inputs of the operations were.
C24_StagesValid ==
    /\ \A i \in 1..Len(doc.targets) : doc.targets[i].stage \in Stages
    /\ \A i \in 1..Len(doc.target_references) :
            doc.target_references[i].campaign_stage \in Stages
    /\ \A slug \in DOMAIN prospects : prospects[slug].stage \in Stages

----------------------------------------------------------------------------
(* Lost updates on the queue file *)

\* both invocations have ended, and q saved a copy it had loaded before p
\* saved
SavedOver(p, q) ==
    /\ p # q
    /\ procs[p].pc = "done" /\ procs[q].pc = "done"
    /\ procs[q].stale

\* C25: no lock is taken, so two invocations can both load the queue file
\* before either saves it.  Then both report success and the file holds
\* what the later writer loaded plus its own change only: an action the
\* earlier writer queued is not in it, and an action the earlier writer
\* sent and removed is back in it as the later writer had read it.
C25_LostUpdate ==
    \A p, q \in Procs :
        SavedOver(p, q) =>
            /\ last.status = "success"
            /\ pending = Written(q, procs[q].pending, procs[q].history).pending
            /\ history = Written(q, procs[q].pending, procs[q].history).history
            /\ procs[p].op = "queue_action" => procs[p].id \notin PendingIds
            /\ procs[p].op = "execute" /\ procs[q].op = "queue_action" =>
                  SubSeq(pending, 1, Len(pending) - 1) = procs[q].pending

\* two queue_action calls loaded the empty file, both saved and both
\* printed success; the file holds the second writer's action only
C25_Witness ==
    \E p, q \in Procs :
        /\ SavedOver(p, q)
        /\ procs[p].op = "queue_action" /\ procs[q].op = "queue_action"
        /\ procs[p].pending = <<>> /\ procs[q].pending = <<>>
        /\ PendingIds = { procs[q].id }
        /\ last = [NoLast EXCEPT !.op = "queue_action"]

\* an execute call sent action 1 and removed it, and a queue_action call
\* that had loaded the file before wrote it back as approved
C25_WitnessExecute ==
    \E p, q \in Procs :
        /\ SavedOver(p, q)
        /\ procs[p].op = "execute" /\ procs[q].op = "queue_action"
        /\ 1 \in sentOk
        /\ \E i \in 1..Len(pending) : pending[i].id = 1 /\ pending[i].status = "approved"

----------------------------------------------------------------------------
(* The shape of the store after a migration *)

\* C26: a migration that is not a dry run, returns success and found at
\* least one inline target in the document leaves the stored document in
\* the reference format: it holds target_references and no targets key.
C26_MigratedShape ==
    [][(/\ Migrate(FALSE)
        /\ last'.status = "success"
        /\ doc.has_targets /\ doc.targets # <<>>)
            => (doc'.has_refs /\ ~doc'.has_targets)]_vars

----------------------------------------------------------------------------
(* Touches recorded on references *)

\* the ids of the references of a targets document, and the reference or
\* the inline target with a given id
RefIds(d) ==
    { d.target_references[i].id : i \in 1..Len(d.target_references) }
RefOf(d, id) == d.target_references[FindId(d.target_references, id, 1)]
InlineOf(d, id) == d.targets[FindId(d.targets, id, 1)]

\* the step is a record_touch call on this id that returned success
Touched(id) ==
    /\ RecordTouch(id, [channel |-> "email"])
    /\ last'.status = "success"

----------------------------------------------------------------------------
(* The cap of the approval history *)

\* the ids of the actions a step approves, in the order of the queue
RECURSIVE NewlyApproved(_)
NewlyApproved(i) ==
    IF i > Len(pending) THEN <<>>
    ELSE IF pending[i].status = "pending" /\ pending'[i].status = "approved"
         THEN << pending[i].id >> \o NewlyApproved(i + 1)
         ELSE NewlyApproved(i + 1)

\* C28: the history never holds more than 500 entries.  An approve call
\* puts the entry of each action it approves at index 0, so that the
\* entries of the call come first, the one approved last before the
\* others, and the entries the history held follow in their order; when
\* that makes more than 500 entries the ones at the end, the oldest, are
\* dropped.
C28_HistoryCapped ==
    /\ [](Len(history) <= HistoryCap)
    /\ [][(last'.op = "approve" /\ last'.status = "success") =>
            LET newly == NewlyApproved(1)
                k == Len(newly)
            IN /\ Len(history') = IF Len(history) + k > HistoryCap
                                  THEN HistoryCap ELSE Len(history) + k
               /\ \A j \in 1..Len(history') :
                    IF j <= k
                    THEN /\ history'[j].id = newly[k + 1 - j]
                         /\ history'[j].status = "approved"
                    ELSE history'[j] = history[j - k]]_vars

\* one approve call approved actions 501 and 502 on a history of 500
\* entries: their entries are at the front, 502 first, and the entries of
\* actions 1 and 2 are gone
C28_Witness ==
    /\ last = [NoLast EXCEPT !.op = "approve"]
    /\ Len(history) = HistoryCap
    /\ history[1].id = HistoryCap + 2 /\ history[2].id = HistoryCap + 1
    /\ history[3].id = HistoryCap
    /\ history[HistoryCap].id = 3

----------------------------------------------------------------------------
(* Sent at most once *)

\* the ids for which an execute call runs a sender
Dispatched(results) ==
    { results[j].action_id : j \in { k \in 1..Len(results) : results[k].sender } }

----------------------------------------------------------------------------
(* The dry run *)

\* the ids of the approved actions an execute call selects, in the order
\* of the queue
RECURSIVE SelectedIds(_, _, _)
SelectedIds(p, i, ids) ==
    IF i > Len(p) THEN <<>>
    ELSE IF p[i].status = "approved" /\ (ids = {} \/ p[i].id \in ids)
         THEN << p[i].id >> \o SelectedIds(p, i + 1, ids)
         ELSE SelectedIds(p, i + 1, ids)

\* C30: an execute call with dry_run set runs no external sender and
\* leaves the queue file as it was, the pending array with every status,
\* last_error and last_attempt and the history included, and its results
\* hold one entry with status success for each approved action the call
\* selects.
C30_DryRunFrame ==
    /\ [](\A ids \in SUBSET IdPool : \A oc \in [PendingIds -> SenderOutcomes] :
            LET r == ExecuteBatch(pending, history, ids, TRUE, oc, now)
                selected == SelectedIds(pending, 1, ids)
            IN /\ r.pending = pending
               /\ r.history = history
               /\ Dispatched(r.results) = {}
               /\ Len(r.results) = Len(selected)
               /\ \A j \in 1..Len(selected) :
                    /\ r.results[j].action_id = selected[j]
                    /\ r.results[j].status = "success")
    /\ [][last'.op = "execute dry_run" =>
            (pending' = pending /\ history' = history /\ sentOk' = sentOk)]_vars

\* a dry run was made on a queue that holds action 1 approved and action 2
\* pending: nothing was sent and the queue is as it was
C30_Witness ==
    /\ last = [NoLast EXCEPT !.op = "execute dry_run"]
    /\ Len(pending) = 2
    /\ pending[1].status = "approved" /\ pending[1].last_attempt = NoTime
    /\ pending[2].status = "pending"
    /\ sentOk = {}
    /\ Len(history) = 1 /\ history[1].status = "approved"

====
